---------------------------- MODULE Spec2Model ----------------------------
(***************************************************************************)
(* Site auditor (src/helper_scripts/site_auditor/auditor.py): the crawl    *)
(* loop, the per-page audit and the report export, as a state machine.     *)
(*                                                                         *)
(* Python str values are sequences of one-character strings, so that       *)
(* rstrip, startswith, endswith, split and urlparse are computed as the    *)
(* code computes them.  Python None is NoneVal; an optional number is      *)
(* NoneVal or IntVal(n).                                                   *)
(***************************************************************************)
EXTENDS Integers, Sequences, FiniteSets, TLC

\* ------------------------------------------------------------------ bounds
\* Largest number of abnormal events injected in one run: an abnormal
\* rendering-engine outcome (an exception, a timeout, a navigation that
\* returns no response) or an interrupt.
MaxFaults == 1
\* Largest number of img elements of a document in SpecImages.
MaxImgs == 2

\* ----------------------------------------------------------- Python values
NoneVal == [t |-> "null"]
IntVal(n) == [t |-> "int", v |-> n]
StrVal(s) == [t |-> "str", v |-> s]
ListVal(s) == [t |-> "list", v |-> s]
\* a dict is the sequence of its <<key, value>> pairs in insertion order
DictVal(s) == [t |-> "dict", v |-> s]

\* Python's truth value of an optional str
Truthy(x) == IF x = NoneVal THEN FALSE ELSE x.v # <<>>

\* ------------------------------------------------------------ str methods
\* Operators that use an argument more than once take it as a value first
\* (t \in {s}), so that it is computed once: Only({F(t) : t \in {s}}) is F(s).
Only(S) == CHOOSE x \in S : TRUE

StartsWith(s, p) ==
    \E t \in {s} :
        /\ Len(p) <= Len(t)
        /\ SubSeq(t, 1, Len(p)) = p

EndsWith(s, p) ==
    \E t \in {s} :
        /\ Len(p) <= Len(t)
        /\ SubSeq(t, Len(t) - Len(p) + 1, Len(t)) = p

RECURSIVE RStrip(_, _)
RStrip(s, c) ==
    Only({ IF t # <<>> /\ t[Len(t)] = c
           THEN RStrip(SubSeq(t, 1, Len(t) - 1), c) ELSE t : t \in {s} })

RECURSIVE LStrip(_, _)
LStrip(s, c) ==
    Only({ IF t # <<>> /\ t[1] = c THEN LStrip(Tail(t), c) ELSE t : t \in {s} })

Strip(s, c) == LStrip(RStrip(s, c), c)

\* index of the first occurrence of a character of cs in s, 0 when none
Find(s, cs) ==
    Only({ IF \E i \in 1..Len(t) : t[i] \in cs
           THEN CHOOSE i \in 1..Len(t) :
                    t[i] \in cs /\ \A j \in 1..(i - 1) : t[j] \notin cs
           ELSE 0 : t \in {s} })

\* what precedes position i of s (all of s when i is 0)
Before(s, i) == IF i = 0 THEN s ELSE SubSeq(s, 1, i - 1)

\* s.split(c)[0]
SplitHead(s, c) == Only({ Before(t, Find(t, {c})) : t \in {s} })

\* s.split(c)
RECURSIVE Split(_, _)
RECURSIVE SplitAt(_, _, _)
SplitAt(s, c, i) ==
    IF i = 0 THEN <<s>>
    ELSE <<SubSeq(s, 1, i - 1)>> \o Split(SubSeq(s, i + 1, Len(s)), c)

Split(s, c) == Only({ SplitAt(t, c, Find(t, {c})) : t \in {s} })

UpperChars == <<"A","B","C","D","E","F","G","H","I","J","K","L","M",
                "N","O","P","Q","R","S","T","U","V","W","X","Y","Z">>
LowerChars == <<"a","b","c","d","e","f","g","h","i","j","k","l","m",
                "n","o","p","q","r","s","t","u","v","w","x","y","z">>
DigitChars == <<"0","1","2","3","4","5","6","7","8","9">>

Range(s) == {s[i] : i \in 1..Len(s)}

LowerChar(c) ==
    IF c \in Range(UpperChars)
    THEN LowerChars[CHOOSE i \in 1..26 : UpperChars[i] = c]
    ELSE c

Lower(s) == Only({ [i \in 1..Len(t) |-> LowerChar(t[i])] : t \in {s} })

\* ------------------------------------------------------------------ config
SKIP_PREFIXES == <<
    <<"/","a","d","m","i","n">>,
    <<"/","c","o","r","e">>,
    <<"/","m","o","d","u","l","e","s">>,
    <<"/","t","h","e","m","e","s">>,
    <<"/","s","i","t","e","s","/","d","e","f","a","u","l","t","/","f","i","l","e","s">>,
    <<"/","u","s","e","r">>,
    <<"/","u","p","d","a","t","e",".","p","h","p">>,
    <<"/","i","n","s","t","a","l","l",".","p","h","p">>,
    <<"/","c","r","o","n">>,
    <<"/","b","a","t","c","h">>,
    <<"/","s","e","a","r","c","h">>,
    <<"/","n","o","d","e","/","a","d","d">>,
    <<"/","m","e","d","i","a","/","a","d","d">> >>

SKIP_EXTENSIONS == <<
    <<".","j","p","g">>, <<".","j","p","e","g">>, <<".","p","n","g">>,
    <<".","g","i","f">>, <<".","w","e","b","p">>, <<".","s","v","g">>,
    <<".","p","d","f">>, <<".","d","o","c">>, <<".","d","o","c","x">>,
    <<".","x","l","s">>, <<".","x","l","s","x">>,
    <<".","c","s","s">>, <<".","j","s">>, <<".","w","o","f","f">>,
    <<".","w","o","f","f","2">>, <<".","t","t","f">>,
    <<".","z","i","p">>, <<".","g","z">>, <<".","t","a","r">> >>

\* ------------------------------------------------------- urllib.parse model
\* urlsplit: the scheme is what precedes the first ':' when it is made of
\* scheme characters and starts with a letter.
SchemeChars == Range(UpperChars) \cup Range(LowerChars) \cup Range(DigitChars)
                   \cup {"+", "-", "."}

\* i is the position of the first ':' of url (0: none)
SchemeEndAt(url, i) ==
    IF /\ i > 1
       /\ url[1] \in Range(UpperChars) \cup Range(LowerChars)
       /\ \A j \in 1..(i - 1) : url[j] \in SchemeChars
    THEN i ELSE 0

SchemeEnd(url) == Only({ SchemeEndAt(t, Find(t, {":"})) : t \in {url} })

AfterScheme(url) == Only({ SubSeq(t, SchemeEnd(t) + 1, Len(t)) : t \in {url} })

HasNetloc(url) == StartsWith(AfterScheme(url), <<"/","/">>)

\* the netloc of a URL whose part after the scheme is a
NetlocAfter(a) ==
    IF StartsWith(a, <<"/","/">>)
    THEN Only({ Before(r, Find(r, {"/", "?", "#"})) : r \in {SubSeq(a, 3, Len(a))} })
    ELSE <<>>

\* urlparse(url).netloc
UrlNetloc(url) == Only({ NetlocAfter(a) : a \in {AfterScheme(url)} })

\* the path of a URL whose part after the scheme is a
PathAfter(a) ==
    SplitHead(SplitHead(IF StartsWith(a, <<"/","/">>)
                        THEN SubSeq(a, 3 + Len(NetlocAfter(a)), Len(a))
                        ELSE a,
                        "#"), "?")

\* urlparse(url).path
UrlPath(url) == Only({ PathAfter(a) : a \in {AfterScheme(url)} })

\* ----------------------------------------------------------------- helpers
normalise_url(url) == RStrip(url, "/")

\* lines 167-171 on the lower-cased path
SkipPath(path) ==
    \/ \E i \in 1..Len(SKIP_PREFIXES) : StartsWith(path, SKIP_PREFIXES[i])
    \/ \E i \in 1..Len(SKIP_EXTENSIONS) : EndsWith(path, SKIP_EXTENSIONS[i])

should_skip(url) == \E path \in {Lower(UrlPath(url))} : SkipPath(path)

\* p or "/"
OrSlash(p) == IF p = <<>> THEN <<"/">> ELSE p

path_of(url) == Only({ OrSlash(p) : p \in {UrlPath(url)} })

\* a mutant of categorise_path without the label of the root path
categorise_path_no_root(path) ==
    LET parts == Split(Strip(path, "/"), "/")
    IN  parts[1]

categorise_path(path) ==
    Only({ IF parts = <<>> THEN <<"h","o","m","e","p","a","g","e">> ELSE parts[1]
           : parts \in {SelectSeq(Split(Strip(path, "/"), "/"), LAMBDA p : p # <<>>)} })

NonNavigable == <<
    <<"m","a","i","l","t","o",":">>, <<"t","e","l",":">>,
    <<"j","a","v","a","s","c","r","i","p","t",":">>, <<"#">> >>

\* lines 159-161 on the two netlocs
SameNetloc(n, b) == ~ (n # <<>> /\ n # b)

is_internal(href, base) ==
    /\ href # <<>>
    /\ ~ \E i \in 1..Len(NonNavigable) : StartsWith(href, NonNavigable[i])
    /\ SameNetloc(UrlNetloc(href), UrlNetloc(base))

FileChars ==
    Range(UpperChars) \cup Range(LowerChars) \cup Range(DigitChars) \cup {"_", "-"}

\* re.sub(r"[^a-zA-Z0-9_-]", "_", s)
Sanitised(s) ==
    Only({ [i \in 1..Len(t) |-> IF t[i] \in FileChars THEN t[i] ELSE "_"] : t \in {s} })

safe_filename(path) ==
    Only({ IF r = <<>> THEN <<"r","o","o","t">> ELSE r
           : r \in {Sanitised(Strip(path, "/"))} })

VIEWPORTS == <<
    [width |-> 375,  height |-> 812,  label |-> <<"3","7","5">>],
    [width |-> 768,  height |-> 1024, label |-> <<"7","6","8">>],
    [width |-> 1440, height |-> 900,  label |-> <<"1","4","4","0">>] >>

\* ------------------------------------------------------------- environment
\* The world the crawler runs in: one site on host s (the audited site), the
\* same site deployed on host l (the comparison base), a foreign host x.
Scheme == <<"h","t","t","p",":","/","/">>
HostS == Scheme \o <<"s">>
HostL == Scheme \o <<"l">>
HostX == Scheme \o <<"x">>

\* what the command line may pass as --url (--drush goes with the site's
\* root only)
BaseInputs == {
    HostS, HostS \o <<"/">>,
    HostS \o <<"/","d","o","c","s",".","p","d","f">>,
    HostS \o <<"/","a","d","m","i","n">>,
    HostS \o <<"/","n","o","d","e","/","1">> }

\* the origin (scheme and host) of an absolute URL
OriginAt(url, e) ==
    SubSeq(url, 1, e) \o <<"/","/">> \o NetlocAfter(SubSeq(url, e + 1, Len(url)))

OriginOf(url) == Only({ OriginAt(url, e) : e \in {SchemeEnd(url)} })

\* the page a server of host s or l returns for the path p (slashes stripped)
PageAt(netloc, p) ==
    IF netloc \notin {<<"s">>, <<"l">>} THEN "missing"
    ELSE IF p = <<>> THEN "home"
    ELSE IF p = <<"a","b","o","u","t">> THEN "about"
    ELSE IF p = <<"c","o","n","t","a","c","t">> THEN "contact"
    ELSE IF p = <<"n","o","d","e","/","1">> THEN "node1"
    ELSE IF p = <<"n","o","d","e","/","2">> THEN "node2"
    ELSE "missing"

PageAfter(a) ==
    Only({ PageAt(n, p) : n \in {NetlocAfter(a)}, p \in {Strip(PathAfter(a), "/")} })

\* which page of the site a server of host s or l returns for a URL
PageOf(url) == Only({ PageAfter(a) : a \in {AfterScheme(url)} })

\* a.href of every a[href] of the page shown for `url`, in document order
\* (the browser resolves relative hrefs against the document's origin)
\* the hrefs of a page, as paths relative to the document's origin (""
\* marks an href that is absolute in the markup)
HrefsOf(page) ==
    CASE page = "home" ->
           << <<"/","a","b","o","u","t">>,
              <<"/","a","d","m","i","n","/","s","e","t","t","i","n","g","s">> >>
      [] page = "about" ->
           << <<"/">>,
              <<"/","a","b","o","u","t","#","t">>,
              <<"/","a","b","o","u","t","/","?","r","=","1">>,
              <<"">> \o <<"m","a","i","l","t","o",":","a","@","s">>,
              <<"">> \o HostX \o <<"/","e","x","t">>,
              <<"/","a",".","P","D","F">>,
              <<"/","U","s","e","r","/","l","o","g","i","n">> >>
      [] page = "contact" ->
           << <<"/","a","b","o","u","t","/">> >>
      [] page = "node1" ->
           << <<"/","n","o","d","e","/","a","d","d">>,
              <<"/","c","o","n","t","a","c","t">>,
              <<"/","c","o","n","t","a","c","t","#","f">> >>
      [] page = "node2" ->
           << <<"/","n","o","d","e","/","a","d","d">>,
              <<"">> \o <<"s","m","s",":","5">> >>
      [] OTHER -> <<>>

\* the browser resolves a relative href against the document's origin
Resolve(h, o) == IF h[1] = "" THEN Tail(h) ELSE o \o h

Resolved(hrefs, o) == [i \in 1..Len(hrefs) |-> Resolve(hrefs[i], o)]

\* a.href of every a[href] of the page shown for `url`, in document order
AnchorsOf(url) ==
    Only({ Resolved(HrefsOf(p), o) : p \in {PageOf(url)}, o \in {OriginOf(url)} })

\* page.goto loads http URLs only: for a URL of another scheme (sms:, data:)
\* the navigation is aborted and goto raises an Error that is not a timeout
Navigable(url) == HasNetloc(url)

StatusOf(page) == IF page = "missing" THEN 404 ELSE 200

\* pages whose network never goes idle (a polling widget): the strict
\* 'networkidle' wait always runs into its timeout there
SlowPages == {"contact"}

\* wall-clock milliseconds a navigation to the page takes, per host
PageMs(page) ==
    CASE page = "home" -> 120
      [] page = "about" -> 480
      [] page = "contact" -> 300
      [] page = "node1" -> 200
      [] OTHER -> 50

HostMs(netloc, k) == IF netloc = <<"l">> THEN 600 - k ELSE k

LoadAfter(a) ==
    Only({ HostMs(n, PageMs(p)) : n \in {NetlocAfter(a)}, p \in {PageAfter(a)} })

LoadMs(url) == Only({ LoadAfter(a) : a \in {AfterScheme(url)} })

\* the responses seen while the page loads: <<url, content-length header>>
ResponsesAt(url, page, css) ==
    IF page = "about"
    THEN << <<url, StrVal(<<"9","0","0">>)>>,
            <<css, NoneVal>>,
            <<css, StrVal(<<"7","0">>)>> >>
    ELSE << <<url, StrVal(<<"5","0">>)>> >>

ResponsesOf(url) ==
    Only({ ResponsesAt(url, p, o \o <<"/","a",".","c","s","s">>)
           : p \in {PageOf(url)}, o \in {OriginOf(url)} })

\* what the page raises on the tab while it loads, in order: console
\* messages <<"console", type, text>> and uncaught errors <<"pageerror", text>>
EventsOf(page) ==
    CASE page = "about" ->
           << <<"console", "error", <<"bad ", "\"", "x", "\"">>>>,
              <<"console", "log", <<"hi">>>> >>
      [] page = "contact" ->
           << <<"console", "warning", <<"slow", "\\", "n">>>>,
              <<"pageerror", <<"TypeError: u is undefined">>>> >>
      [] OTHER -> <<>>

\* performance.getEntriesByType('navigation')[0], as responseStart - startTime
TtfbOf(page) == IF page = "missing" THEN NoneVal ELSE IntVal(35)

\* the layout-shift score accumulated in the observation window, as a JS
\* number: an integer, or a fraction counted in 10^-5
ClsOf(page) ==
    IF page = "about" THEN [t |-> "frac5", v |-> 12346] ELSE IntVal(0)

\* document.querySelectorAll('img'): getAttribute('alt'), complete, naturalWidth
ImagesOf(page) ==
    CASE page = "about" ->
           << [alt |-> NoneVal,             complete |-> TRUE,  naturalWidth |-> 0],
              [alt |-> StrVal(<<>>),        complete |-> TRUE,  naturalWidth |-> 10],
              [alt |-> StrVal(<<"logo">>),  complete |-> FALSE, naturalWidth |-> 10],
              [alt |-> NoneVal,             complete |-> TRUE,  naturalWidth |-> 10] >>
      [] page = "home" ->
           << [alt |-> StrVal(<<"a">>),     complete |-> TRUE,  naturalWidth |-> 0] >>
      [] OTHER -> <<>>

\* the document a successful navigation to `url` puts in the tab, and the
\* tab without one (about:blank, or the browser's error page)
Doc(u) == Only({ [url |-> u, imgs |-> ImagesOf(p)] : p \in {PageOf(u)} })
Blank == [url |-> <<>>, imgs |-> <<>>]

\* document.documentElement.scrollWidth and the widths of fixed elements
ScrollWidthOf(page, w) == IF page = "about" /\ w < 500 THEN 500 ELSE w
FixedWidthsOf(page) ==
    CASE page = "about" -> {800} [] page = "node1" -> {400} [] OTHER -> {}

\* what axe.run() reports for the page
AxeOf(page) ==
    IF page = "about"
    THEN << [id |-> <<"image-alt">>, impact |-> StrVal(<<"critical">>),
             description |-> <<"Images must have alternate text">>, nodes |-> 2] >>
    ELSE <<>>

\* the rendered document's elements that the SEO extraction looks at:
\* name is the name, property or rel attribute, content the content or href
\* attribute (NoneVal when the attribute is absent), text the element's text;
\* an ld+json script holds a JSON text that parses (ok) or does not
El(tag, name, content, text) ==
    [tag |-> tag, name |-> name, content |-> content, text |-> text]

HtmlOf(page) ==
    CASE page = "home" ->
           << El("title", <<>>, NoneVal, <<"Home">>),
              El("meta", <<"D","e","s","c","r","i","p","t","i","o","n">>,
                 StrVal(<<"Welcome">>), <<>>),
              El("metaprop", <<"O","G",":","t","i","t","l","e">>, StrVal(<<"Home">>), <<>>),
              El("metaprop", <<"o","g",":","u","r","l">>, NoneVal, <<>>),
              El("h1", <<>>, NoneVal, <<"Welcome">>),
              El("ldjson", <<>>, [ok |-> TRUE, value |-> DictVal(<<
                    << <<"@type">>, StrVal(<<"WebSite">>) >> >>)], <<>>),
              El("ldjson", <<>>, [ok |-> FALSE, value |-> NoneVal], <<>>) >>
      [] page = "about" ->
           << El("title", <<>>, NoneVal, <<"About">>),
              El("link", <<"c","a","n","o","n","i","c","a","l">>,
                 StrVal(<<"/about">>), <<>>),
              El("meta", <<"r","o","b","o","t","s">>, NoneVal, <<>>),
              El("h2", <<>>, NoneVal, <<"a">>), El("h2", <<>>, NoneVal, <<"b">>),
              El("h2", <<>>, NoneVal, <<"c">>), El("h2", <<>>, NoneVal, <<"d">>),
              El("h2", <<>>, NoneVal, <<"e">>), El("h2", <<>>, NoneVal, <<"f">>) >>
      [] page = "missing" -> << El("title", <<>>, NoneVal, <<"Not found">>) >>
      [] OTHER -> << El("h1", <<>>, NoneVal, <<"Page">>) >>

\* ----------------------------------------------------------------- messages
\* str(e) of the exceptions the engine raises
MsgTimeout == <<"Timeout exceeded.">>
MsgNetError(u) ==
    <<"net::ERR_CONNECTION_REFUSED at ">> \o u \o <<"\n", "Call log:", "\n",
      "  - navigating to ", "\"">> \o u \o <<"\"">>
MsgAxe(kind) ==
    CASE kind = "nav_err" -> <<"net::ERR_ABORTED">>
      [] kind = "inject_err" -> <<"Failed to load script at ", "\"", "axe.min.js", "\"">>
      [] kind = "wait_timeout" -> MsgTimeout
      [] OTHER -> <<"axe.run failed">>

\* what the drush queries print (seed_urls_from_drush reads them line by line)
AliasOut == << <<"a","l","i","a","s">>,
               <<"/","a",".","P","D","F">>,
               <<"/","a","b","o","u","t">>,
               <<"c","o","n","t","a","c","t"," ">>,
               <<"/","U","s","e","r","/","1">>,
               <<>>,
               <<"/","a",".","P","D","F","/">> >>
NodeOut == << <<"n","i","d">>, <<"2">> >>

\* ---------------------------------------------------------- seeding (drush)
RECURSIVE FlatMap(_, _)
FlatMap(F(_), s) == IF s = <<>> THEN <<>> ELSE F(Head(s)) \o FlatMap(F, Tail(s))

IsDigits(s) == s # <<>> /\ \A i \in 1..Len(s) : s[i] \in Range(DigitChars)

seed_urls_from_drush(base_url, alias_ok, node_ok) ==
    LET base == RStrip(base_url, "/")
        alias(l) ==
            LET line == Strip(l, " ")
            IN  IF line # <<>> /\ ~StartsWith(line, <<"a","l","i","a","s">>)
                THEN <<base \o (IF StartsWith(line, <<"/">>) THEN line ELSE <<"/">> \o line)>>
                ELSE <<>>
        node(l) ==
            LET line == Strip(l, " ")
            IN  IF line # <<>> /\ IsDigits(line)
                THEN <<base \o <<"/","n","o","d","e","/">> \o line>>
                ELSE <<>>
    IN  (IF alias_ok THEN FlatMap(alias, AliasOut) ELSE <<>>)
        \o (IF node_ok THEN FlatMap(node, NodeOut) ELSE <<>>)

\* ------------------------------------------------------------------- state
VARIABLES
    pc,             \* where the run is: in crawl(), in a phase of audit_page, in main()
    base_url,       \* crawl's base_url (normalised by its first statement)
    compare_base,   \* crawl's compare_base: NoneVal or a base URL
    drush_cmd,      \* crawl's drush_cmd: NoneVal or a command
    queue,          \* crawl: the frontier
    visited,        \* crawl: the normalised URLs already taken up
    results,        \* crawl: the AuditRecords, in order
    url,            \* the URL popped last (audit_page's url)
    result,         \* audit_page: the record under construction
    js_errors,      \* audit_page: what on_console and on_pageerror collected
    request_sizes,  \* audit_page: what on_response collected, url -> bytes
    vp,             \* audit_page: index of the viewport the sweep is at
    tab,            \* the document the browser tab shows: its URL and img elements
    viewport,       \* the tab's viewport, <<width, height>>
    listeners,      \* how many event handlers are subscribed on the tab
    files,          \* the file names written under screenshots/
    browser,        \* "none", "open" or "closed"
    faults,         \* abnormal events injected so far
    json_file,      \* the text of audit_results.json, <<>> before it is written
    response,       \* audit_page: what page.goto returned, NoneVal for no response
    enqueued,       \* history: every URL put on the queue so far, in order
    returned,       \* main: what crawl() has returned, NoneVal before it returns
    old_js_errors,  \* the js_errors lists of the audit_page calls that have
                    \* returned: their handlers are still subscribed
    summary,        \* export_results: the summary by category, NoneVal before
    seeded          \* history: the queue as crawl built it before the loop

vars == <<pc, base_url, compare_base, drush_cmd, queue, visited, results, url,
          result, js_errors, request_sizes, vp, tab, viewport, listeners, files,
          browser, faults, json_file, response, enqueued, returned, old_js_errors, summary, seeded>>

NoResult == <<>>

Init ==
    /\ pc = "start"
    /\ base_url \in BaseInputs
    /\ compare_base \in {NoneVal, StrVal(HostL \o <<"/">>)}
    /\ drush_cmd \in {NoneVal, StrVal(<<"ddev drush">>)}
    /\ Truthy(drush_cmd) => normalise_url(base_url) = HostS
    /\ queue = <<>>
    /\ visited = {}
    /\ results = <<>>
    /\ url = <<>>
    /\ result = NoResult
    /\ js_errors = <<>>
    /\ request_sizes = <<>>
    /\ vp = 0
    /\ tab = Blank
    /\ viewport = <<1280, 720>>
    /\ listeners = 0
    /\ files = {}
    /\ browser = "none"
    /\ faults = 0
    /\ json_file = <<>>
    /\ response = NoneVal
    /\ enqueued = <<>>
    /\ returned = NoneVal
    /\ old_js_errors = <<>>
    /\ summary = NoneVal
    /\ seeded = <<>>

\* an abnormal engine outcome may be injected while the budget lasts
MayFail == faults < MaxFaults

\* ------------------------------------------------------ crawl: before the loop
\* crawl(), lines 437-456: normalise the base, seed the queue, open the tab
Seed ==
    /\ pc = "start"
    /\ \E alias_ok \in BOOLEAN, node_ok \in BOOLEAN :
          /\ ~Truthy(drush_cmd) => (alias_ok /\ node_ok)
          /\ base_url' = normalise_url(base_url)
          /\ queue' = <<normalise_url(base_url) \o <<"/">>>>
                      \o (IF Truthy(drush_cmd)
                          THEN seed_urls_from_drush(normalise_url(base_url), alias_ok, node_ok)
                          ELSE <<>>)
    /\ enqueued' = queue'
    /\ seeded' = queue'
    /\ visited' = {}
    /\ results' = <<>>
    /\ browser' = "open"
    /\ pc' = "loop"
    /\ UNCHANGED <<compare_base, drush_cmd, url, result, js_errors, request_sizes,
                   vp, tab, viewport, listeners, files, faults, json_file, response,
                   returned, old_js_errors, summary>>

\* -------------------------------------------------------- audit_page: parts
\* the record audit_page starts from (lines 193-209)
NewResult(u) ==
    [url |-> path_of(u),
     full_url |-> u,
     category |-> categorise_path(path_of(u)),
     status_code |-> NoneVal,
     load_time_ms |-> NoneVal,
     ttfb_ms |-> NoneVal,
     request_count |-> 0,
     total_bytes |-> 0,
     seo |-> <<>>,
     images |-> [total |-> 0, missing_alt |-> 0, broken |-> 0],
     errors |-> <<>>,
     responsive_issues |-> <<>>,
     accessibility |-> <<>>,
     performance_vitals |-> <<>>,
     live_comparison |-> NoneVal]

\* on_console and on_pageerror (lines 213-218), run on the events of one load
OnEvent(e) ==
    IF e[1] = "console"
    THEN IF e[2] \in {"error", "warning"}
         THEN <<[type |-> <<e[2]>>, message |-> e[3]]>>
         ELSE <<>>
    ELSE <<[type |-> <<"js_error">>, message |-> e[2]]>>

Collected(js, u) == Only({ js \o FlatMap(OnEvent, es) : es \in {EventsOf(PageOf(u))} })

\* the handlers of the earlier audit_page calls are never unsubscribed: they
\* run on the same events and append to the js_errors list of their own call
OldCollected(olds, u) ==
    Only({ [i \in 1..Len(olds) |-> olds[i] \o new]
           : new \in {FlatMap(OnEvent, EventsOf(PageOf(u)))} })

\* int(cl) of a content-length header
RECURSIVE ParseInt(_)
ParseInt(s) ==
    Only({ IF t = <<>> THEN 0
           ELSE 10 * ParseInt(SubSeq(t, 1, Len(t) - 1))
                + (CHOOSE d \in 0..9 : DigitChars[d + 1] = t[Len(t)]) : t \in {s} })

\* on_response (lines 225-231) run on the responses of one load, in order:
\* request_sizes[response.url] = int(cl) if cl else 0, an exception dropped
RECURSIVE OnResponses(_, _)
OnResponses(sizes, rs) ==
    Only({ IF r = <<>> THEN sz
           ELSE LET u == Head(r)[1]
                    cl == Head(r)[2]
                    n == IF cl = NoneVal \/ cl.v = <<>> THEN 0 ELSE ParseInt(cl.v)
                IN  IF cl # NoneVal /\ cl.v # <<>> /\ ~IsDigits(cl.v)
                    THEN OnResponses(sz, Tail(r))
                    ELSE OnResponses([x \in DOMAIN sz \cup {u} |->
                                         IF x = u THEN n ELSE sz[x]], Tail(r))
           : sz \in {sizes}, r \in {rs} })

RECURSIVE SumValues(_, _)
SumValues(f, ks) ==
    Only({ IF S = {} THEN 0
           ELSE f[Only(S)] + SumValues(f, S \ {Only(S)}) : S \in {ks} })

\* the Response page.goto returns for a document, and no response
ResponseFor(u) == Only({ [status |-> StatusOf(p)] : p \in {PageOf(u)} })

\* a mutant of AfterNavigation that forgets line 248 (the status is never stored)
AfterNavigationNoStatus(r, resp, ms, sizes) ==
    [r EXCEPT !.load_time_ms = IntVal(ms),
              !.request_count = Cardinality(DOMAIN sizes),
              !.total_bytes = SumValues(sizes, DOMAIN sizes)]

\* lines 246-252: what a navigation that returned `resp` after `ms`
\* milliseconds leaves in the record
AfterNavigation(r, resp, ms, sizes) ==
    Only({ [r EXCEPT !.status_code = IF rp # NoneVal THEN IntVal(rp.status) ELSE @,
                     !.load_time_ms = IntVal(ms),
                     !.request_count = Cardinality(DOMAIN sz),
                     !.total_bytes = SumValues(sz, DOMAIN sz)]
           : rp \in {resp}, sz \in {sizes} })

\* round(cls_value, 4) if cls_value is not None else None (line 277); a
\* fraction is kept in 10^-4 afterwards
RoundCls(v) ==
    IF v = NoneVal THEN NoneVal
    ELSE IF v.t = "int" THEN v
    ELSE [t |-> "frac4", v |-> (v.v + 5) \div 10]

\* dict assignment d[k] = v on a sequence of <<key, value>> pairs
DictSet(d, k, v) ==
    IF \E i \in 1..Len(d) : d[i][1] = k
    THEN [i \in 1..Len(d) |-> IF d[i][1] = k THEN <<k, v>> ELSE d[i]]
    ELSE Append(d, <<k, v>>)

RECURSIVE OgTags(_, _)
OgTags(d, els) ==
    IF els = <<>> THEN d
    ELSE OgTags(DictSet(d, Head(els).name,
                        IF Head(els).content = NoneVal THEN StrVal(<<>>)
                        ELSE Head(els).content),
                Tail(els))

Texts(els) == [i \in 1..Len(els) |-> els[i].text]

\* the SEO extraction of lines 282-312 on the rendered document
SeoOf(html) ==
    LET first(els, attr) ==
            IF els = <<>> THEN NoneVal
            ELSE IF attr = "text" THEN StrVal(els[1].text) ELSE els[1].content
        title == SelectSeq(html, LAMBDA e : e.tag = "title")
        desc == SelectSeq(html, LAMBDA e : e.tag = "meta" /\
                    Lower(e.name) = <<"d","e","s","c","r","i","p","t","i","o","n">>)
        canon == SelectSeq(html, LAMBDA e : e.tag = "link" /\
                    e.name = <<"c","a","n","o","n","i","c","a","l">>)
        robots == SelectSeq(html, LAMBDA e : e.tag = "meta" /\
                    Lower(e.name) = <<"r","o","b","o","t","s">>)
        h1 == Texts(SelectSeq(html, LAMBDA e : e.tag = "h1"))
        h2 == Texts(SelectSeq(html, LAMBDA e : e.tag = "h2"))
        og == SelectSeq(html, LAMBDA e : e.tag = "metaprop" /\
                    StartsWith(Lower(e.name), <<"o","g",":">>))
        ld == SelectSeq(html, LAMBDA e : e.tag = "ldjson" /\ e.content.ok)
    IN  [title |-> first(title, "text"),
         meta_description |-> first(desc, "content"),
         canonical |-> first(canon, "content"),
         robots |-> first(robots, "content"),
         h1 |-> h1,
         h2 |-> SubSeq(h2, 1, IF Len(h2) < 5 THEN Len(h2) ELSE 5),
         og |-> OgTags(<<>>, og),
         structured_data |-> [i \in 1..Len(ld) |-> ld[i].content.value]]

\* JavaScript's !v on what getAttribute returns (null or a string)
JsNot(v) == v = NoneVal \/ v = StrVal(<<>>)

Count(s, P(_)) == Len(SelectSeq(s, P))

\* a mutant of ImageAudit that takes an empty alt for a missing one
ImageAuditEmptyIsMissing(imgs) ==
    [total |-> Len(imgs),
     missing_alt |-> Count(imgs, LAMBDA i : JsNot(i.alt)),
     broken |-> Count(imgs, LAMBDA i : ~i.complete \/ i.naturalWidth = 0)]

\* the script of lines 316-323 on the page's img elements
ImageAudit(imgs) ==
    [total |-> Len(imgs),
     missing_alt |-> Count(imgs, LAMBDA i : JsNot(i.alt) /\ i.alt # StrVal(<<>>)),
     broken |-> Count(imgs, LAMBDA i : ~i.complete \/ i.naturalWidth = 0)]

\* the two layout predicates of lines 339-349 at inner width w, as the list
\* `issues` of lines 353-355
LayoutIssues(page, w) ==
    (IF ScrollWidthOf(page, w) > w THEN <<"horizontal_overflow">> ELSE <<>>)
    \o (IF \E f \in FixedWidthsOf(page) : f > w
        THEN <<"fixed_element_overflow">> ELSE <<>>)

\* fname of line 359
ShotName(u, label) ==
    safe_filename(path_of(u)) \o <<"_">> \o label \o <<".","p","n","g">>

\* the entries lines 364-369 append for one viewport; fname is NoneVal after
\* a failed capture
IssueEntries(issues, label, fname) ==
    [i \in 1..Len(issues) |->
        [viewport |-> label,
         issue |-> <<issues[i]>>,
         screenshot |-> IF fname # NoneVal
                        THEN StrVal(<<"screenshots/">> \o fname.v)
                        ELSE NoneVal]]

\* the links discover_links keeps (lines 421-429) of the hrefs it read
KeptLinks(links, base) ==
    LET keep(link) ==
            Only({ IF is_internal(link, base) /\ ~should_skip(clean)
                   THEN <<clean>> ELSE <<>>
                   : clean \in {normalise_url(SplitHead(SplitHead(link, "#"), "?"))} })
    IN  Only({ FlatMap(keep, ls) : ls \in {links} })

\* -------------------------------------------------------------- crawl: loop
\* `while queue:` is false (line 458): close the browser and return (478-480)
CloseBrowser ==
    /\ pc = "loop"
    /\ queue = <<>>
    /\ browser' = "closed"
    /\ returned' = ListVal(results)
    /\ pc' = "done"
    /\ UNCHANGED <<base_url, compare_base, drush_cmd, queue, visited, results, url,
                   result, js_errors, request_sizes, vp, tab, viewport, listeners,
                   files, faults, json_file, response,
                   enqueued, old_js_errors, summary, seeded>>

\* a mutant of PopVisited that audits the popped URL again
PopVisitedAuditsAgain ==
    /\ pc = "loop"
    /\ queue # <<>>
    /\ normalise_url(Head(queue)) \in visited
    /\ url' = Head(queue)
    /\ queue' = Tail(queue)
    /\ result' = NewResult(Head(queue))
    /\ js_errors' = <<>>
    /\ request_sizes' = <<>>
    /\ listeners' = listeners + 3
    /\ response' = NoneVal
    /\ pc' = "nav"
    /\ UNCHANGED <<base_url, compare_base, drush_cmd, visited, results, vp, tab,
                   viewport, files, browser, faults, json_file, enqueued, returned, old_js_errors, summary, seeded>>

\* lines 459-462: the popped URL is already visited
PopVisited ==
    /\ pc = "loop"
    /\ queue # <<>>
    /\ normalise_url(Head(queue)) \in visited
    /\ url' = Head(queue)
    /\ queue' = Tail(queue)
    /\ UNCHANGED <<pc, base_url, compare_base, drush_cmd, visited, results,
                   result, js_errors, request_sizes, vp, tab, viewport, listeners,
                   files, browser, faults, json_file, response,
                   enqueued, returned, old_js_errors, summary, seeded>>

\* lines 459-464: the popped URL is skip-eligible
PopSkipped ==
    /\ pc = "loop"
    /\ queue # <<>>
    /\ normalise_url(Head(queue)) \notin visited
    /\ should_skip(Head(queue))
    /\ url' = Head(queue)
    /\ queue' = Tail(queue)
    /\ UNCHANGED <<pc, base_url, compare_base, drush_cmd, visited, results,
                   result, js_errors, request_sizes, vp, tab, viewport, listeners,
                   files, browser, faults, json_file, response,
                   enqueued, returned, old_js_errors, summary, seeded>>

\* a mutant of MarkVisited that records the URL as queued, not normalised
MarkVisitedRaw(seen, u) == seen \cup {u}

\* lines 460 and 465: norm = normalise_url(url); visited.add(norm)
MarkVisited(seen, u) == seen \cup {normalise_url(u)}

\* a mutant of PopAudit that forgets the skip test of lines 463-464
PopAuditNoSkipTest ==
    /\ pc = "loop"
    /\ queue # <<>>
    /\ normalise_url(Head(queue)) \notin visited
    /\ url' = Head(queue)
    /\ queue' = Tail(queue)
    /\ visited' = visited \cup {normalise_url(Head(queue))}
    /\ result' = NewResult(Head(queue))
    /\ js_errors' = <<>>
    /\ request_sizes' = <<>>
    /\ listeners' = listeners + 3
    /\ response' = NoneVal
    /\ pc' = "nav"
    /\ UNCHANGED <<base_url, compare_base, drush_cmd, results, vp, tab, viewport,
                   files, browser, faults, json_file,
                   enqueued, returned, old_js_errors, summary, seeded>>

\* lines 459-469 and 193-233: mark the URL visited and enter audit_page, which
\* creates the record and subscribes its three handlers
PopAudit ==
    /\ pc = "loop"
    /\ queue # <<>>
    /\ normalise_url(Head(queue)) \notin visited
    /\ ~should_skip(Head(queue))
    /\ url' = Head(queue)
    /\ queue' = Tail(queue)
    /\ visited' = MarkVisited(visited, Head(queue))
    /\ result' = NewResult(Head(queue))
    /\ js_errors' = <<>>
    /\ request_sizes' = <<>>
    /\ listeners' = listeners + 3
    /\ response' = NoneVal
    /\ pc' = "nav"
    /\ UNCHANGED <<base_url, compare_base, drush_cmd, results, vp, tab, viewport,
                   files, browser, faults, json_file,
                   enqueued, returned, old_js_errors, summary, seeded>>

\* ------------------------------------------------------- audit_page: phases
\* the timeout of the strict attempt, in milliseconds (line 238)
StrictTimeoutMs == 30000

\* lines 236-252, the strict attempt: page.goto(url, wait_until="networkidle")
\* the responses whose on_response task has finished when page.goto returns:
\* a task is suspended in `await response.all_headers()` (line 227) and
\* nothing awaits it; the last one may still be pending
Handled(rs, late) == IF late /\ rs # <<>> THEN SubSeq(rs, 1, Len(rs) - 1) ELSE rs

\* request_sizes as lines 250-251 read it
SizesRead(sizes, rs, late) == OnResponses(sizes, Handled(rs, late))

NavStrict ==
    /\ pc = "nav"
    /\ \E o \in {"ok", "ok_late", "no_response", "timeout", "error"} :
          /\ (o # "ok") => \/ MayFail
                            \/ (o = "timeout" /\ PageOf(url) \in SlowPages)
                            \/ (o = "error" /\ ~Navigable(url))
          /\ (o # "error") => Navigable(url)
          /\ (o \in {"ok", "ok_late"}) => PageOf(url) \notin SlowPages
          /\ (o = "no_response") => PageOf(url) \notin SlowPages
          /\ faults' = IF \/ o = "ok"
                          \/ (o = "timeout" /\ PageOf(url) \in SlowPages)
                          \/ (o = "error" /\ ~Navigable(url))
                       THEN faults ELSE faults + 1
          /\ old_js_errors' = IF o = "error" THEN old_js_errors
                              ELSE OldCollected(old_js_errors, url)
          /\ CASE o \in {"ok", "ok_late", "no_response"} ->
                    \* request_sizes is read at lines 250-251 without waiting
                    \* for the on_response tasks: with ok_late the last one
                    \* is still in all_headers() and writes after the read
                    LET sizes == SizesRead(request_sizes, ResponsesOf(url), o = "ok_late")
                        resp == IF o = "no_response" THEN NoneVal ELSE ResponseFor(url)
                    IN  /\ request_sizes' = OnResponses(request_sizes, ResponsesOf(url))
                        /\ js_errors' = Collected(js_errors, url)
                        /\ tab' = Doc(url)
                        /\ response' = resp
                        /\ result' = AfterNavigation(result, resp, LoadMs(url), sizes)
                        /\ pc' = "ttfb"
               [] o = "timeout" ->
                    \* PlaywrightTimeoutError: the document is there, the
                    \* network did not settle; on to the fallback attempt
                    /\ request_sizes' = OnResponses(request_sizes, ResponsesOf(url))
                    /\ js_errors' = Collected(js_errors, url)
                    /\ tab' = Doc(url)
                    /\ pc' = "nav_fallback"
                    /\ UNCHANGED <<result, response>>
               [] OTHER ->
                    \* any other exception is not caught: it leaves
                    \* audit_page, crawl and asyncio.run
                    /\ tab' = Blank
                    /\ pc' = "raised"
                    /\ UNCHANGED <<request_sizes, js_errors, result, response>>
    /\ UNCHANGED <<base_url, compare_base, drush_cmd, queue, visited, results, url,
                   vp, viewport, listeners, files, browser, json_file,
                   enqueued, returned, summary, seeded>>

\* lines 240-244: page.goto(url, wait_until="domcontentloaded") after a timeout
NavFallback ==
    /\ pc = "nav_fallback"
    /\ \E o \in {"ok", "no_response", "error"} :
          /\ (o # "ok") => MayFail
          /\ faults' = IF o = "ok" THEN faults ELSE faults + 1
          /\ old_js_errors' = IF o = "error" THEN old_js_errors
                              ELSE OldCollected(old_js_errors, url)
          /\ IF o = "error"
             THEN /\ result' = [result EXCEPT !.errors = Append(@,
                                    [type |-> <<"navigation_error">>,
                                     message |-> MsgNetError(url)])]
                  /\ tab' = Blank
                  /\ pc' = "return"
                  /\ UNCHANGED <<request_sizes, js_errors, response>>
             ELSE LET sizes == OnResponses(request_sizes, ResponsesOf(url))
                      resp == IF o = "ok" THEN ResponseFor(url) ELSE NoneVal
                  IN  /\ request_sizes' = sizes
                      /\ js_errors' = Collected(js_errors, url)
                      /\ tab' = Doc(url)
                      /\ response' = resp
                      /\ result' = AfterNavigation(result, resp,
                                      StrictTimeoutMs + LoadMs(url), sizes)
                      /\ pc' = "ttfb"
    /\ UNCHANGED <<base_url, compare_base, drush_cmd, queue, visited, results, url,
                   vp, viewport, listeners, files, browser, json_file,
                   enqueued, returned, summary, seeded>>

\* the script of lines 257-260 in the installed Chrome (channel="chrome"):
\* without a navigation entry `e` is undefined and the script returns null
TtfbScript(page, supported) == IF supported THEN TtfbOf(page) ELSE NoneVal

\* the script of lines 266-276: `let cls = 0`; where the engine has no
\* layout-shift entries observe() adds nothing (or throws into the empty
\* catch) and the timer resolves the promise with the initial 0
ClsScript(page, supported) == IF supported THEN ClsOf(page) ELSE IntVal(0)

\* lines 255-262
Ttfb ==
    /\ pc = "ttfb"
    /\ \E o \in {"ok", "unsupported", "error"} :
          /\ (o # "ok") => MayFail
          /\ faults' = IF o = "ok" THEN faults ELSE faults + 1
          /\ result' = IF o = "error" THEN result
                       ELSE [result EXCEPT !.ttfb_ms =
                                TtfbScript(PageOf(tab.url), o = "ok")]
    /\ pc' = "cls"
    /\ UNCHANGED <<base_url, compare_base, drush_cmd, queue, visited, results, url,
                   js_errors, request_sizes, vp, tab, viewport, listeners, files,
                   browser, json_file, response,
                   enqueued, returned, old_js_errors, summary, seeded>>

\* lines 265-279
Cls ==
    /\ pc = "cls"
    /\ \E o \in {"ok", "unsupported", "error"} :
          /\ (o # "ok") => MayFail
          /\ faults' = IF o = "ok" THEN faults ELSE faults + 1
          /\ result' = IF o = "error" THEN result
                       ELSE [result EXCEPT !.performance_vitals =
                                [cls |-> RoundCls(ClsScript(PageOf(tab.url), o = "ok"))]]
    /\ pc' = "seo"
    /\ UNCHANGED <<base_url, compare_base, drush_cmd, queue, visited, results, url,
                   js_errors, request_sizes, vp, tab, viewport, listeners, files,
                   browser, json_file, response,
                   enqueued, returned, old_js_errors, summary, seeded>>

\* lines 282-312: page.content() is awaited outside any try
Seo ==
    /\ pc = "seo"
    /\ \E ok \in BOOLEAN :
          /\ ~ok => MayFail
          /\ faults' = IF ok THEN faults ELSE faults + 1
          /\ result' = IF ok THEN [result EXCEPT !.seo = SeoOf(HtmlOf(PageOf(tab.url)))]
                       ELSE result
          /\ pc' = IF ok THEN "images" ELSE "raised"
    /\ UNCHANGED <<base_url, compare_base, drush_cmd, queue, visited, results, url,
                   js_errors, request_sizes, vp, tab, viewport, listeners, files,
                   browser, json_file, response,
                   enqueued, returned, old_js_errors, summary, seeded>>

\* lines 315-328: the image script, then result["errors"].extend(js_errors)
Images ==
    /\ pc = "images"
    /\ \E ok \in BOOLEAN :
          /\ ~ok => MayFail
          /\ faults' = IF ok THEN faults ELSE faults + 1
          /\ result' = [result EXCEPT
                           !.images = IF ok THEN ImageAudit(tab.imgs) ELSE @,
                           !.errors = @ \o js_errors]
    /\ pc' = "sweep"
    /\ vp' = 1
    /\ UNCHANGED <<base_url, compare_base, drush_cmd, queue, visited, results, url,
                   js_errors, request_sizes, tab, viewport, listeners, files,
                   browser, json_file, response,
                   enqueued, returned, old_js_errors, summary, seeded>>

\* a mutant of SweepEntries that records nothing when the capture fails
SweepEntriesNeedShot(o, issues, label, fname) ==
    IF o = "ok" THEN IssueEntries(issues, label, StrVal(fname)) ELSE <<>>

\* what one iteration of the loop appends to result["responsive_issues"], by
\* its outcome: the `continue` of lines 336 and 351 append nothing, line 362
\* sets fname to None
SweepEntries(o, issues, label, fname) ==
    CASE o = "ok" -> IssueEntries(issues, label, StrVal(fname))
      [] o = "shot_error" -> IssueEntries(issues, label, NoneVal)
      [] OTHER -> <<>>

\* lines 331-369, one iteration of the responsive loop: resize, re-navigate,
\* evaluate the two predicates, capture, append the issues
Sweep ==
    /\ pc = "sweep"
    /\ \E o \in {"ok", "resize_error", "nav_error", "eval_error", "shot_error"} :
          LET v == VIEWPORTS[vp]
              issues == LayoutIssues(PageOf(url), v.width)
              fname == ShotName(url, v.label)
          IN  /\ (o # "ok") => MayFail
              /\ (o = "shot_error") => issues # <<>>
              /\ faults' = IF o = "ok" THEN faults ELSE faults + 1
              /\ viewport' = IF o = "resize_error" THEN viewport
                             ELSE <<v.width, v.height>>
              /\ tab' = CASE o = "resize_error" -> tab
                          [] o = "nav_error" -> Blank
                          [] OTHER -> Doc(url)
              /\ js_errors' = IF o \in {"resize_error", "nav_error"} THEN js_errors
                              ELSE Collected(js_errors, url)
              /\ old_js_errors' = IF o \in {"resize_error", "nav_error"}
                                  THEN old_js_errors
                                  ELSE OldCollected(old_js_errors, url)
              /\ files' = IF o = "ok" /\ issues # <<>> THEN files \cup {fname}
                          ELSE files
              /\ result' = [result EXCEPT !.responsive_issues = @ \o
                               SweepEntries(o, issues, v.label, fname)]
              /\ pc' = IF o = "resize_error" THEN "raised"
                       ELSE IF vp = Len(VIEWPORTS) THEN "reset" ELSE "sweep"
              /\ vp' = IF o = "resize_error" \/ vp = Len(VIEWPORTS) THEN vp ELSE vp + 1
    /\ UNCHANGED <<base_url, compare_base, drush_cmd, queue, visited, results, url,
                   request_sizes, listeners, browser, json_file, response,
                   enqueued, returned, summary, seeded>>

\* line 372: set_viewport_size(1440 x 900), awaited outside any try
ResetViewport ==
    /\ pc = "reset"
    /\ \E ok \in BOOLEAN :
          /\ ~ok => MayFail
          /\ faults' = IF ok THEN faults ELSE faults + 1
          /\ viewport' = IF ok THEN <<1440, 900>> ELSE viewport
          /\ pc' = IF ok THEN "axe" ELSE "raised"
    /\ UNCHANGED <<base_url, compare_base, drush_cmd, queue, visited, results, url,
                   result, js_errors, request_sizes, vp, tab, listeners, files,
                   browser, json_file, response,
                   enqueued, returned, old_js_errors, summary, seeded>>

\* a mutant of AxeField that appends the error entry to the violations found
AxeFieldAppends(o, u) ==
    IF o = "ok" THEN AxeOf(PageOf(u))
    ELSE AxeOf(PageOf(u)) \o <<[type |-> <<"axe_error">>, message |-> MsgAxe(o)]>>

\* what lines 386 and 388 store, by the outcome of the phase
AxeField(o, u) ==
    IF o = "ok" THEN AxeOf(PageOf(u))
    ELSE <<[type |-> <<"axe_error">>, message |-> MsgAxe(o)]>>

\* lines 375-388: re-navigate, inject axe-core, wait for it, run it
Axe ==
    /\ pc = "axe"
    /\ \E o \in {"ok", "nav_err", "inject_err", "wait_timeout", "run_err"} :
          /\ (o # "ok") => MayFail
          /\ faults' = IF o = "ok" THEN faults ELSE faults + 1
          /\ tab' = IF o = "nav_err" THEN Blank ELSE Doc(url)
          /\ js_errors' = IF o = "nav_err" THEN js_errors ELSE Collected(js_errors, url)
          /\ old_js_errors' = IF o = "nav_err" THEN old_js_errors
                              ELSE OldCollected(old_js_errors, url)
          /\ result' = [result EXCEPT !.accessibility = AxeField(o, url)]
    /\ pc' = "compare"
    /\ UNCHANGED <<base_url, compare_base, drush_cmd, queue, visited, results, url,
                   request_sizes, vp, viewport, listeners, files, browser, json_file, response,
                   enqueued, returned, summary, seeded>>

live_url_of(u) == normalise_url(compare_base.v) \o path_of(u)

\* a mutant of LiveField that leaves the field as it was when the navigation fails
LiveFieldDropsError(o, live_url, live_ms, load) ==
    IF o = "ok"
    THEN [live_url |-> live_url, live_load_time_ms |-> live_ms,
          delta_ms |-> live_ms - load]
    ELSE NoneVal

\* what lines 397-403 store, by the outcome of the navigation
LiveField(o, live_url, live_ms, load) ==
    CASE o = "ok" -> [live_url |-> live_url,
                      live_load_time_ms |-> live_ms,
                      delta_ms |-> live_ms - load]
      [] o = "timeout" -> [error |-> MsgTimeout]
      [] OTHER -> [error |-> MsgNetError(live_url)]

\* lines 391-405, no comparison base: `if compare_base:` is false
CompareNone ==
    /\ pc = "compare"
    /\ ~Truthy(compare_base)
    /\ pc' = "return"
    /\ UNCHANGED <<base_url, compare_base, drush_cmd, queue, visited, results, url,
                   result, js_errors, request_sizes, vp, tab, viewport, listeners,
                   files, browser, faults, json_file, response,
                   enqueued, returned, old_js_errors, summary, seeded>>

\* lines 391-405, with a comparison base: page.goto(live_url, "networkidle")
CompareLive ==
    /\ pc = "compare"
    /\ Truthy(compare_base)
    /\ \E o \in {"ok", "timeout", "error"} :
          LET live_url == live_url_of(url)
              slow == PageOf(live_url) \in SlowPages
              live_ms == LoadMs(live_url)
              load == IF result.load_time_ms = NoneVal THEN 0
                      ELSE result.load_time_ms.v
          IN  /\ (o = "ok") => ~slow
              /\ (o = "timeout") => slow \/ MayFail
              /\ (o = "error") => MayFail
              /\ faults' = IF o = "ok" \/ (o = "timeout" /\ slow) THEN faults
                           ELSE faults + 1
              /\ tab' = IF o = "error" THEN Blank ELSE Doc(live_url)
              /\ js_errors' = IF o = "error" THEN js_errors
                              ELSE Collected(js_errors, live_url)
              /\ old_js_errors' = IF o = "error" THEN old_js_errors
                                  ELSE OldCollected(old_js_errors, live_url)
              /\ result' = [result EXCEPT !.live_comparison =
                               LiveField(o, live_url, live_ms, load)]
    /\ pc' = "return"
    /\ UNCHANGED <<base_url, compare_base, drush_cmd, queue, visited, results, url,
                   request_sizes, vp, viewport, listeners, files, browser, json_file, response,
                   enqueued, returned, summary, seeded>>

\* a mutant of ErrorsList in which the record's error list is the list the
\* handlers append to (result["errors"] = js_errors)
ErrorsListShared(own, js) == js

\* line 328, result["errors"].extend(js_errors), copies the entries: the
\* record keeps the list of line 204, which no handler holds
ErrorsList(own, js) == own

\* audit_page returns (line 244 or 405) and crawl appends the record (470)
AuditReturn ==
    /\ pc = "return"
    /\ results' = Append(results, result)
    /\ old_js_errors' = Append(old_js_errors, js_errors)
    /\ result' = NoResult
    /\ pc' = "discover"
    /\ UNCHANGED <<base_url, compare_base, drush_cmd, queue, visited, url,
                   js_errors, request_sizes, vp, tab, viewport, listeners, files,
                   browser, faults, json_file, response,
                   enqueued, returned, summary, seeded>>

\* the links the loop of lines 474-476 puts on the queue
Added(links, seen) == SelectSeq(links, LAMBDA l : normalise_url(l) \notin seen)

\* a mutant of Enqueue that puts the new links at the head of the queue
EnqueueAtHead(q, links, seen) == Added(links, seen) \o q

\* a mutant of Enqueue that puts nothing on the queue
EnqueueNothing(q, links, seen) == q

\* the enqueue loop of lines 474-476
Enqueue(q, links, seen) == q \o Added(links, seen)

\* a mutant of discover_links that returns the page's links also when the
\* script has raised
discover_links_ignores_failure(ok, doc, base) ==
    IF doc # Blank THEN KeptLinks(AnchorsOf(doc.url), base) ELSE <<>>

\* discover_links (lines 412-429) on the document the tab shows: the links
\* kept, or [] when the script raises (a tab without a document has no links)
discover_links(ok, doc, base) ==
    IF ok /\ doc # Blank THEN KeptLinks(AnchorsOf(doc.url), base) ELSE <<>>

\* lines 473-476: discover_links on the document the tab shows now, then the
\* enqueue loop
Discover ==
    /\ pc = "discover"
    /\ \E ok \in BOOLEAN :
          /\ ~ok => MayFail
          /\ faults' = IF ok THEN faults ELSE faults + 1
          /\ queue' = Enqueue(queue, discover_links(ok, tab, base_url), visited)
          /\ enqueued' = enqueued \o Added(discover_links(ok, tab, base_url), visited)
    /\ pc' = "loop"
    /\ UNCHANGED <<base_url, compare_base, drush_cmd, visited, results, url, result,
                   js_errors, request_sizes, vp, tab, viewport, listeners, files,
                   browser, json_file, response,
                   returned, old_js_errors, summary, seeded>>

\* the run is interrupted (KeyboardInterrupt, or the cancellation asyncio.run
\* delivers for it) while the loop of lines 458-476 is in progress: no
\* handler in crawl or main catches it, crawl does not return
InLoop ==
    pc \in {"loop", "nav", "nav_fallback", "ttfb", "cls", "seo", "images", "sweep",
            "reset", "axe", "compare", "return", "discover"}

Interrupt ==
    /\ InLoop
    /\ MayFail
    /\ faults' = faults + 1
    /\ pc' = "interrupted"
    /\ UNCHANGED <<base_url, compare_base, drush_cmd, queue, visited, results, url,
                   result, js_errors, request_sizes, vp, tab, viewport, listeners,
                   files, browser, json_file, response, enqueued, returned, old_js_errors, summary, seeded>>

\* ------------------------------------------------------------- JSON export
\* The Python object `results` (the dicts of lines 193-209 as the phases have
\* filled them), as a tree of None, int, float, str, list and dict values;
\* dict keys in insertion order.
Key(k) == <<k>>

PyStrs(ss) == ListVal([i \in 1..Len(ss) |-> StrVal(ss[i])])

PySeo(seo) ==
    IF seo = <<>> THEN DictVal(<<>>)
    ELSE DictVal(<<
        <<Key("title"), seo.title>>,
        <<Key("meta_description"), seo.meta_description>>,
        <<Key("canonical"), seo.canonical>>,
        <<Key("robots"), seo.robots>>,
        <<Key("h1"), PyStrs(seo.h1)>>,
        <<Key("h2"), PyStrs(seo.h2)>>,
        <<Key("og"), DictVal(seo.og)>>,
        <<Key("structured_data"), ListVal(seo.structured_data)>> >>)

PyImages(im) ==
    DictVal(<< <<Key("total"), IntVal(im.total)>>,
               <<Key("missing_alt"), IntVal(im.missing_alt)>>,
               <<Key("broken"), IntVal(im.broken)>> >>)

PyError(e) ==
    DictVal(<< <<Key("type"), StrVal(e.type)>>,
               <<Key("message"), StrVal(e.message)>> >>)

PyIssue(e) ==
    DictVal(<< <<Key("viewport"), StrVal(e.viewport)>>,
               <<Key("issue"), StrVal(e.issue)>>,
               <<Key("screenshot"), e.screenshot>> >>)

PyViolation(e) ==
    IF "id" \in DOMAIN e
    THEN DictVal(<< <<Key("id"), StrVal(e.id)>>,
                    <<Key("impact"), e.impact>>,
                    <<Key("description"), StrVal(e.description)>>,
                    <<Key("nodes"), IntVal(e.nodes)>> >>)
    ELSE PyError(e)

PyVitals(pv) ==
    IF pv = <<>> THEN DictVal(<<>>) ELSE DictVal(<< <<Key("cls"), pv.cls>> >>)

PyLive(lc) ==
    IF lc = NoneVal THEN NoneVal
    ELSE IF "error" \in DOMAIN lc
    THEN DictVal(<< <<Key("error"), StrVal(lc.error)>> >>)
    ELSE DictVal(<< <<Key("live_url"), StrVal(lc.live_url)>>,
                    <<Key("live_load_time_ms"), IntVal(lc.live_load_time_ms)>>,
                    <<Key("delta_ms"), IntVal(lc.delta_ms)>> >>)

PyRecord(r) ==
    DictVal(<<
        <<Key("url"), StrVal(r.url)>>,
        <<Key("full_url"), StrVal(r.full_url)>>,
        <<Key("category"), StrVal(r.category)>>,
        <<Key("status_code"), r.status_code>>,
        <<Key("load_time_ms"), r.load_time_ms>>,
        <<Key("ttfb_ms"), r.ttfb_ms>>,
        <<Key("request_count"), IntVal(r.request_count)>>,
        <<Key("total_bytes"), IntVal(r.total_bytes)>>,
        <<Key("seo"), PySeo(r.seo)>>,
        <<Key("images"), PyImages(r.images)>>,
        <<Key("errors"), ListVal([i \in 1..Len(r.errors) |-> PyError(r.errors[i])])>>,
        <<Key("responsive_issues"),
          ListVal([i \in 1..Len(r.responsive_issues) |-> PyIssue(r.responsive_issues[i])])>>,
        <<Key("accessibility"),
          ListVal([i \in 1..Len(r.accessibility) |-> PyViolation(r.accessibility[i])])>>,
        <<Key("performance_vitals"), PyVitals(r.performance_vitals)>>,
        <<Key("live_comparison"), PyLive(r.live_comparison)>> >>)

PyResults(rs) == ListVal([i \in 1..Len(rs) |-> PyRecord(rs[i])])

\* json.dump(results, f, indent=2, ensure_ascii=False) of line 489: the text
\* written, one element per character (or per run of characters none of
\* which the encoder treats specially)
RECURSIVE Digits(_)
Digits(n) ==
    IF n < 10 THEN <<DigitChars[n + 1]>>
    ELSE Append(Digits(n \div 10), DigitChars[(n % 10) + 1])

IntText(n) == IF n < 0 THEN <<"-">> \o Digits(-n) ELSE Digits(n)

\* repr of the float v / 10^4
FloatText(v) ==
    LET f == v % 10000
        four == <<DigitChars[(f \div 1000) + 1], DigitChars[((f \div 100) % 10) + 1],
                  DigitChars[((f \div 10) % 10) + 1], DigitChars[(f % 10) + 1]>>
        frac == RStrip(four, "0")
    IN  Digits(v \div 10000) \o <<".">> \o (IF frac = <<>> THEN <<"0">> ELSE frac)

\* a mutant of Escape that writes every character as it is
EscapeNone(c) == <<c>>

\* the encoder writes these three as escapes; ensure_ascii=False leaves every
\* other character of the model's texts as it is
Escape(c) ==
    CASE c = "\"" -> <<"\\", "\"">>
      [] c = "\\" -> <<"\\", "\\">>
      [] c = "\n" -> <<"\\", "n">>
      [] OTHER -> <<c>>

StrText(s) == <<"\"">> \o FlatMap(Escape, s) \o <<"\"">>

NewlineIndent(level) == <<"\n">> \o [i \in 1..(2 * level) |-> " "]

RECURSIVE Encode(_, _)
RECURSIVE EncodeItems(_, _, _, _)
\* the items of list or dict x from the i-th on, at nesting depth `level`
EncodeItems(x, i, level, isDict) ==
    IF i > Len(x) THEN <<>>
    ELSE NewlineIndent(level)
         \o (IF isDict
             THEN StrText(x[i][1]) \o <<":", " ">> \o Encode(x[i][2], level)
             ELSE Encode(x[i], level))
         \o (IF i < Len(x) THEN <<",">> ELSE <<>>)
         \o EncodeItems(x, i + 1, level, isDict)

Encode(x, level) ==
    CASE x.t = "null" -> <<"null">>
      [] x.t = "int" -> IntText(x.v)
      [] x.t = "frac4" -> FloatText(x.v)
      [] x.t = "str" -> StrText(x.v)
      [] x.t = "list" ->
           IF x.v = <<>> THEN <<"[", "]">>
           ELSE <<"[">> \o EncodeItems(x.v, 1, level + 1, FALSE)
                \o NewlineIndent(level) \o <<"]">>
      [] x.t = "dict" ->
           IF x.v = <<>> THEN <<"{", "}">>
           ELSE <<"{">> \o EncodeItems(x.v, 1, level + 1, TRUE)
                \o NewlineIndent(level) \o <<"}">>

json_dump(obj) == Encode(obj, 0)

\* json.load on a text: the value it returns, or ParseError where it raises
ParseError == [t |-> "error"]
Failed == [v |-> ParseError, i |-> 0]

Tok(s, i) == IF i <= Len(s) THEN s[i] ELSE "EOF"

RECURSIVE SkipWs(_, _)
SkipWs(s, i) == IF Tok(s, i) \in {" ", "\n"} THEN SkipWs(s, i + 1) ELSE i

\* the string whose opening quote is before position i
RECURSIVE ParseStr(_, _, _)
ParseStr(s, i, acc) ==
    LET t == Tok(s, i)
    IN  CASE t = "EOF" \/ t = "\n" -> Failed
          [] t = "\"" -> [v |-> StrVal(acc), i |-> i + 1]
          [] t = "\\" ->
               LET e == Tok(s, i + 1)
               IN  CASE e = "\"" -> ParseStr(s, i + 2, Append(acc, "\""))
                     [] e = "\\" -> ParseStr(s, i + 2, Append(acc, "\\"))
                     [] e = "n" -> ParseStr(s, i + 2, Append(acc, "\n"))
                     [] OTHER -> Failed
          [] OTHER -> ParseStr(s, i + 1, Append(acc, t))

\* the digits from position i on: their value n, their number k, the next
\* position
RECURSIVE ParseDigits(_, _, _, _)
ParseDigits(s, i, n, k) ==
    IF Tok(s, i) \in Range(DigitChars)
    THEN ParseDigits(s, i + 1,
                     10 * n + (CHOOSE d \in 0..9 : DigitChars[d + 1] = Tok(s, i)),
                     k + 1)
    ELSE [n |-> n, k |-> k, i |-> i]

RECURSIVE Pow10(_)
Pow10(k) == IF k = 0 THEN 1 ELSE 10 * Pow10(k - 1)

ParseNumber(s, i) ==
    LET neg == Tok(s, i) = "-"
        int == ParseDigits(s, IF neg THEN i + 1 ELSE i, 0, 0)
        frac == ParseDigits(s, int.i + 1, 0, 0)
    IN  IF int.k = 0 THEN Failed
        ELSE IF Tok(s, int.i) # "."
        THEN [v |-> IntVal(IF neg THEN -int.n ELSE int.n), i |-> int.i]
        ELSE IF frac.k = 0 \/ frac.k > 4 \/ neg THEN Failed
        ELSE [v |-> [t |-> "frac4",
                     v |-> int.n * 10000 + frac.n * Pow10(4 - frac.k)],
              i |-> frac.i]

RECURSIVE ParseValue(_, _)
RECURSIVE ParseElems(_, _, _)
RECURSIVE ParseMembers(_, _, _)
\* the elements of a list, the first at or after position i
ParseElems(s, i, acc) ==
    LET r == ParseValue(s, i)
        j == SkipWs(s, r.i)
    IN  IF r = Failed THEN Failed
        ELSE CASE Tok(s, j) = "," -> ParseElems(s, j + 1, Append(acc, r.v))
               [] Tok(s, j) = "]" -> [v |-> ListVal(Append(acc, r.v)), i |-> j + 1]
               [] OTHER -> Failed

\* the members of a dict, the first at or after position i
ParseMembers(s, i, acc) ==
    LET k0 == SkipWs(s, i)
        k == IF Tok(s, k0) = "\"" THEN ParseStr(s, k0 + 1, <<>>) ELSE Failed
        c == SkipWs(s, k.i)
        r == IF k # Failed /\ Tok(s, c) = ":" THEN ParseValue(s, c + 1) ELSE Failed
        j == SkipWs(s, r.i)
    IN  IF r = Failed THEN Failed
        ELSE CASE Tok(s, j) = "," -> ParseMembers(s, j + 1, DictSet(acc, k.v.v, r.v))
               [] Tok(s, j) = "}" ->
                    [v |-> DictVal(DictSet(acc, k.v.v, r.v)), i |-> j + 1]
               [] OTHER -> Failed

ParseValue(s, i) ==
    LET j == SkipWs(s, i)
        t == Tok(s, j)
    IN  CASE t = "null" -> [v |-> NoneVal, i |-> j + 1]
          [] t = "\"" -> ParseStr(s, j + 1, <<>>)
          [] t = "[" ->
               IF Tok(s, SkipWs(s, j + 1)) = "]"
               THEN [v |-> ListVal(<<>>), i |-> SkipWs(s, j + 1) + 1]
               ELSE ParseElems(s, j + 1, <<>>)
          [] t = "{" ->
               IF Tok(s, SkipWs(s, j + 1)) = "}"
               THEN [v |-> DictVal(<<>>), i |-> SkipWs(s, j + 1) + 1]
               ELSE ParseMembers(s, j + 1, <<>>)
          [] t = "-" \/ t \in Range(DigitChars) -> ParseNumber(s, j)
          [] OTHER -> Failed

json_load(s) ==
    LET r == ParseValue(s, 1)
    IN  IF r # Failed /\ SkipWs(s, r.i) = Len(s) + 1 THEN r.v ELSE ParseError

\* lines 568-571 and 487-536: crawl has returned and export_results writes
\* the collection it returned to the JSON file and prints the summary
\* a mutant of IsNot200 that does not count a record without status
IsNot200ButKnown(status) == status # NoneVal /\ status # IntVal(200)

\* the two lambdas of lines 528-529 on one status_code of the frame: a null
\* status is NaN (or None) there, and NaN == 200 is False, NaN != 200 True
Is200(status) == status = IntVal(200)
IsNot200(status) == status # IntVal(200)

\* seo.get("meta_description") of line 502, isna() of line 531
MetaIsNa(seo) == seo = <<>> \/ seo.meta_description = NoneVal

\* sum of a column over the rows of a group
RECURSIVE SumOf(_, _)
SumOf(col(_), g) == IF g = <<>> THEN 0 ELSE col(Head(g)) + SumOf(col, Tail(g))

\* lines 525-533: one row of the summary, for the records g of category c;
\* the mean of load_time_ms is kept as <<sum, count>> of the non-null values
SummaryRow(c, g) ==
    [category |-> c,
     pages |-> Len(g),
     ok |-> Count(g, LAMBDA r : Is200(r.status_code)),
     errors |-> Count(g, LAMBDA r : IsNot200(r.status_code)),
     avg_load_ms |-> << SumOf(LAMBDA r : IF r.load_time_ms = NoneVal THEN 0
                                        ELSE r.load_time_ms.v, g),
                        Count(g, LAMBDA r : r.load_time_ms # NoneVal) >>,
     missing_meta |-> Count(g, LAMBDA r : MetaIsNa(r.seo)),
     broken_images |-> SumOf(LAMBDA r : r.images.broken, g)]

\* df.groupby("category").agg(...): one row per category of the records
Summary(rs) ==
    [c \in {rs[i].category : i \in 1..Len(rs)} |->
        SummaryRow(c, SelectSeq(rs, LAMBDA r : r.category = c))]

Export ==
    /\ pc = "done"
    /\ json_file' = json_dump(PyResults(returned.v))
    /\ summary' = Summary(returned.v)
    /\ pc' = "exported"
    /\ UNCHANGED <<base_url, compare_base, drush_cmd, queue, visited, results, url,
                   result, js_errors, request_sizes, vp, tab, viewport, listeners,
                   files, browser, faults, response,
                   enqueued, returned, old_js_errors, seeded>>

Next ==
    \/ Seed
    \/ CloseBrowser
    \/ PopVisited
    \/ PopSkipped
    \/ PopAudit
    \/ NavStrict
    \/ NavFallback
    \/ Ttfb
    \/ Cls
    \/ Seo
    \/ Images
    \/ Sweep
    \/ ResetViewport
    \/ Axe
    \/ CompareNone
    \/ CompareLive
    \/ AuditReturn
    \/ Discover
    \/ Interrupt
    \/ Export

Spec == Init /\ [][Next]_vars

\* crawl is the one coroutine asyncio.run drives (line 568): when every
\* engine call returns or raises, the step the program is at is taken
SpecLive == Spec /\ WF_vars(Next)

\* --------------------------------------------- the image audit on any page
\* The image phase of audit_page on a document with any img elements: each
\* with or without an alt attribute (empty or not), loaded or not, of
\* natural width 0 or more.
ImgKinds ==
    [alt : {NoneVal, StrVal(<<>>), StrVal(<<"logo">>)},
     complete : BOOLEAN,
     naturalWidth : {0, 10}]

ImgLists == UNION {[1..n -> ImgKinds] : n \in 0..MaxImgs}

InitImages ==
    /\ pc = "images"
    /\ base_url = HostS
    /\ compare_base = NoneVal
    /\ drush_cmd = NoneVal
    /\ queue = <<>>
    /\ url = HostS \o <<"/">>
    /\ visited = {HostS}
    /\ results = <<>>
    /\ result = AfterNavigation(NewResult(HostS \o <<"/">>),
                                ResponseFor(HostS \o <<"/">>), LoadMs(HostS \o <<"/">>),
                                OnResponses(<<>>, ResponsesOf(HostS \o <<"/">>)))
    /\ js_errors = <<>>
    /\ request_sizes = OnResponses(<<>>, ResponsesOf(HostS \o <<"/">>))
    /\ vp = 0
    /\ \E l \in ImgLists : tab = [url |-> HostS \o <<"/">>, imgs |-> l]
    /\ viewport = <<1280, 720>>
    /\ listeners = 3
    /\ files = {}
    /\ browser = "open"
    /\ faults = 0
    /\ json_file = <<>>
    /\ response = ResponseFor(HostS \o <<"/">>)
    /\ enqueued = <<HostS \o <<"/">>>>
    /\ returned = NoneVal
    /\ old_js_errors = <<>>
    /\ summary = NoneVal
    /\ seeded = <<HostS \o <<"/">>>>

NextImages == Images

SpecImages == InitImages /\ [][NextImages]_vars

\* ------------------------------------------------------------------ claims
\* the record of the page being audited, when there is one
InAudit == result # NoResult

\* the records audit_page has returned: those appended, and the one it is
\* returning
Returned ==
    {results[i] : i \in 1..Len(results)}
        \cup (IF pc = "return" THEN {result} ELSE {})

\* what the phases before the accessibility phase have left in a record
EarlierFields(r) ==
    <<r.url, r.full_url, r.category, r.status_code, r.load_time_ms, r.ttfb_ms,
      r.request_count, r.total_bytes, r.seo, r.images, r.errors,
      r.responsive_issues, r.performance_vitals>>

\* C1: at every boundary of the crawl loop and at crawl's return the visited
\* set has as many entries as there are records, and no two records have
\* full URLs that are equal after trailing-slash normalisation.
C1_OneRecordPerVisited ==
    pc \in {"loop", "done", "exported"} =>
        /\ Cardinality(visited) = Len(results)
        /\ \A i, j \in 1..Len(results) :
              i # j => normalise_url(results[i].full_url)
                           # normalise_url(results[j].full_url)

\* a duplicate of an audited URL is at the head of the queue
C1_Witness ==
    /\ pc = "loop"
    /\ Len(results) >= 2
    /\ queue # <<>>
    /\ normalise_url(Head(queue)) \in visited

\* C2, as stated: no URL for which should_skip is true is in the visited set
\* or is the full URL of a record.
C2_Original ==
    /\ \A v \in visited : ~should_skip(v)
    /\ \A i \in 1..Len(results) : ~should_skip(results[i].full_url)

\* C2, amended: no record has a skip-eligible full URL, popping a
\* skip-eligible URL changes neither the visited set nor the records, and
\* every entry of the visited set is the normalised form of an audited URL
\* that is not skip-eligible (the normalised form itself may be).
C2_SkippedNeverAudited ==
    /\ [](/\ \A i \in 1..Len(results) : ~should_skip(results[i].full_url)
          /\ InAudit => ~should_skip(result.full_url)
          /\ \A v \in visited :
                \/ \E i \in 1..Len(results) :
                      v = normalise_url(results[i].full_url)
                \/ InAudit /\ v = normalise_url(result.full_url))
    /\ [][(pc = "loop" /\ queue # <<>> /\ should_skip(Head(queue)))
            => (visited' = visited /\ results' = results /\ pc' # "nav")]_vars

\* a skip-eligible seeded URL has just been popped, after an audit
C2_Witness ==
    /\ pc = "loop"
    /\ Len(results) >= 1
    /\ url # <<>>
    /\ should_skip(url)
    /\ normalise_url(url) \notin visited

\* C3, as stated: no failure of an engine operation ends the run before
\* export_results; crawl returns, with the queue empty and one record for
\* every URL it marked visited.
C3_RunSurvivesEveryFailure ==
    /\ pc # "raised"
    /\ pc \in {"done", "exported"} =>
          /\ queue = <<>>
          /\ visited = {normalise_url(results[i].full_url) : i \in 1..Len(results)}

\* C4, as stated: when the strict attempt fails (for a timeout or any other
\* reason) and no fallback attempt succeeds, audit_page returns a record with
\* exactly one error entry, of kind navigation_error, null status and
\* timings, and nothing of the later phases.
C4_NavigationFailureIsRecorded ==
    [][(\/ pc = "nav" /\ pc' \notin {"nav", "nav_fallback", "ttfb", "interrupted"}
        \/ pc = "nav_fallback" /\ pc' \notin {"nav_fallback", "ttfb", "interrupted"})
         => /\ pc' = "return"
            /\ Len(result'.errors) = 1
            /\ result'.errors[1].type = <<"navigation_error">>
            /\ result' = [NewResult(url) EXCEPT !.errors = result'.errors]]_vars

\* C5, as stated: after a strict timeout and a successful fallback attempt
\* the record has a non-null status_code and a non-null load_time_ms.
C5_Original ==
    [][(pc = "nav_fallback" /\ pc' = "ttfb")
         => (result'.status_code # NoneVal /\ result'.load_time_ms # NoneVal)]_vars

\* C5, amended: after a strict timeout and a successful fallback attempt
\* load_time_ms is non-null, and status_code is the status of the response
\* the fallback returned, null when it returned none.
C5_FallbackKeepsStatusAndTime ==
    [][(pc = "nav_fallback" /\ pc' = "ttfb")
         => /\ result'.load_time_ms # NoneVal
            /\ result'.status_code =
                  IF response' # NoneVal THEN IntVal(response'.status) ELSE NoneVal]_vars

\* the fallback attempt has succeeded with a response
C5_Witness ==
    /\ pc = "ttfb"
    /\ result.load_time_ms # NoneVal
    /\ result.load_time_ms.v >= StrictTimeoutMs
    /\ result.status_code = IntVal(200)

\* an accessibility field is a list of violation summaries or one error entry
A11yShape(a) ==
    \/ \A i \in 1..Len(a) : DOMAIN a[i] = {"id", "impact", "description", "nodes"}
    \/ /\ Len(a) = 1
       /\ DOMAIN a[1] = {"type", "message"}
       /\ a[1].type = <<"axe_error">>

\* C6: the accessibility field of every returned record is a list of
\* violation summaries or exactly one error-tagged entry; the accessibility
\* phase, failing or not, changes no other field, and when it fails it leaves
\* exactly one error-tagged entry.
C6_AccessibilityIsListOrOneError ==
    /\ [](\A r \in Returned : A11yShape(r.accessibility))
    /\ [][(pc = "axe" /\ pc' \notin {"axe", "interrupted"})
            => /\ pc' = "compare"
               /\ EarlierFields(result') = EarlierFields(result)
               /\ result'.live_comparison = result.live_comparison
               /\ A11yShape(result'.accessibility)
               /\ (faults' # faults) =>
                     /\ Len(result'.accessibility) = 1
                     /\ "type" \in DOMAIN result'.accessibility[1]]_vars

\* a record of a page with violations to report whose accessibility run
\* failed, with the data of the earlier phases
C6_Witness ==
    \E i \in 1..Len(results) :
        /\ AxeOf(PageOf(results[i].full_url)) # <<>>
        /\ Len(results[i].accessibility) = 1
        /\ "type" \in DOMAIN results[i].accessibility[1]
        /\ results[i].status_code = IntVal(200)
        /\ results[i].seo # <<>>
        /\ results[i].images.total > 0

\* C7: a returned record has a null live_comparison exactly when no
\* comparison base is configured or its primary navigation failed; otherwise
\* it is a comparison or an error object, and the comparison phase changes no
\* other field of the record.
C7_LiveComparisonNullOnlyWithoutBase ==
    /\ [](\A r \in Returned :
             /\ (r.live_comparison = NoneVal)
                  <=> (~Truthy(compare_base) \/ r.load_time_ms = NoneVal)
             /\ r.live_comparison # NoneVal =>
                   DOMAIN r.live_comparison \in
                       {{"error"}, {"live_url", "live_load_time_ms", "delta_ms"}})
    /\ [][(pc = "compare" /\ pc' \notin {"compare", "interrupted"})
            => /\ pc' = "return"
               /\ EarlierFields(result') = EarlierFields(result)
               /\ result'.accessibility = result.accessibility]_vars

\* a record whose comparison navigation failed, with the data of the earlier
\* phases
C7_Witness ==
    \E i \in 1..Len(results) :
        /\ DOMAIN results[i].live_comparison = {"error"}
        /\ results[i].status_code = IntVal(200)
        /\ results[i].seo # <<>>
        /\ results[i].images.total > 0

\* the scenario of C8: the crawl of the site from its base URL, no seeding,
\* no comparison base, every engine operation succeeding
Scenario ==
    /\ base_url = HostS
    /\ ~Truthy(drush_cmd)
    /\ ~Truthy(compare_base)
    /\ faults = 0

\* C8: the homepage links to /about (in scope) and /admin/settings (skip
\* prefix) and /about links to nothing new; the crawl ends with exactly two
\* records, '/' of category 'homepage' and '/about' of category 'about'.
C8_ScenarioTwoRecords ==
    (pc = "done" /\ Scenario) =>
        /\ Len(results) = 2
        /\ results[1].url = <<"/">>
        /\ results[1].category = <<"h","o","m","e","p","a","g","e">>
        /\ results[2].url = <<"/","a","b","o","u","t">>
        /\ results[2].category = <<"a","b","o","u","t">>
        /\ \A i \in 1..Len(results) :
              ~StartsWith(results[i].url, <<"/","a","d","m","i","n">>)

C8_Witness ==
    /\ pc = "done"
    /\ Scenario
    /\ Len(results) = 2

\* C9: after the image script has run, missing_alt counts the images with no
\* alt attribute (an empty alt is present), broken those not loaded or of
\* natural width 0, each image once in each, and neither exceeds total.
C9_ImageCounts ==
    (pc = "sweep" /\ faults = 0) =>
        LET imgs == tab.imgs
            noalt == {i \in 1..Len(imgs) : imgs[i].alt = NoneVal}
            broken == {i \in 1..Len(imgs) :
                          ~imgs[i].complete \/ imgs[i].naturalWidth = 0}
        IN  /\ result.images.total = Len(imgs)
            /\ result.images.missing_alt = Cardinality(noalt)
            /\ result.images.broken = Cardinality(broken)
            /\ result.images.missing_alt <= result.images.total
            /\ result.images.broken <= result.images.total

\* an image with no alt and natural width 0 beside one with an empty alt:
\* the first is counted once in each count, the second in neither
C9_Witness ==
    /\ pc = "sweep"
    /\ faults = 0
    /\ Len(tab.imgs) = 2
    /\ tab.imgs[1] = [alt |-> NoneVal, complete |-> TRUE, naturalWidth |-> 0]
    /\ tab.imgs[2] = [alt |-> StrVal(<<>>), complete |-> TRUE, naturalWidth |-> 10]
    /\ result.images = [total |-> 2, missing_alt |-> 1, broken |-> 1]

RecordKey(i) == normalise_url(results[i].full_url)

\* the position in the enqueue history of the first entry for the normalised
\* URL n, and of the first such entry that is not skip-eligible (0: none)
FirstEnqueue(n) ==
    LET at == {k \in 1..Len(enqueued) : normalise_url(enqueued[k]) = n}
    IN  IF at = {} THEN 0 ELSE CHOOSE k \in at : \A m \in at : k <= m

FirstKeptEnqueue(n) ==
    LET at == {k \in 1..Len(enqueued) :
                  normalise_url(enqueued[k]) = n /\ ~should_skip(enqueued[k])}
    IN  IF at = {} THEN 0 ELSE CHOOSE k \in at : \A m \in at : k <= m

\* C11, as stated: the records are in the order of the first enqueue of their
\* URLs (by normalised form), and the base URL, when not skip-eligible, is
\* the first record.
C11_Original ==
    /\ \A i, j \in 1..Len(results) :
          i < j => FirstEnqueue(RecordKey(i)) < FirstEnqueue(RecordKey(j))
    /\ (results # <<>> /\ ~should_skip(base_url)) => RecordKey(1) = base_url

\* C11, amended: each record is of the first queue entry for its URL (by
\* normalised form) that is not skip-eligible, the records are in the order
\* in which those entries were enqueued, and the first queue entry (the base
\* URL with its trailing slash), when not skip-eligible, is the first record.
C11_FifoOrder ==
    /\ \A i \in 1..Len(results) :
          /\ FirstKeptEnqueue(RecordKey(i)) > 0
          /\ results[i].full_url = enqueued[FirstKeptEnqueue(RecordKey(i))]
    /\ \A i, j \in 1..Len(results) :
          i < j => FirstKeptEnqueue(RecordKey(i)) < FirstKeptEnqueue(RecordKey(j))
    /\ (results # <<>> /\ ~should_skip(enqueued[1])) =>
          results[1].full_url = enqueued[1]

\* a discovered page has been audited after the seeded ones that were queued
\* before it was found
C11_Witness ==
    /\ Len(results) >= 3
    /\ results[1].full_url = enqueued[1]
    /\ \E i \in 2..Len(results) :
          /\ PageOf(results[i].full_url) = "about"
          /\ PageOf(results[i - 1].full_url) = "node2"
          /\ FirstKeptEnqueue(RecordKey(i)) > FirstKeptEnqueue(RecordKey(i - 1))

\* a URL is on the base host
OnBaseHost(u) == HasNetloc(u) /\ UrlNetloc(u) = UrlNetloc(base_url)

\* the hyperlinks of the page at u, without fragment, query and trailing
\* slashes, that are on the base host and not skip-eligible
InScopeLinks(u) ==
    {t \in {normalise_url(SplitHead(SplitHead(l, "#"), "?")) : l \in Range(AnchorsOf(u))} :
        OnBaseHost(t) /\ ~should_skip(t)}

\* the URLs a chain of hyperlinks through in-scope pages leads to from S
RECURSIVE ReachFrom(_)
ReachFrom(S) ==
    LET next == S \cup UNION {InScopeLinks(u) : u \in S}
    IN  IF next = S THEN S ELSE ReachFrom(next)

\* ... from the base URL (nothing when the base URL itself is skipped)
Reachable ==
    IF should_skip(base_url \o <<"/">>) THEN {} ELSE ReachFrom({base_url})

LaterPhases == {"ttfb", "cls", "seo", "images", "sweep", "reset", "axe", "compare"}

\* C13: once the primary navigation has succeeded, a failure of a single
\* later operation does not stop the page: the audit goes on to return its
\* record, and the fields set by the navigation phase are unchanged.
\* (An interrupt of the run is no failure of an operation.)
C13_LaterFailureNeverStopsPage ==
    [][(pc \in LaterPhases /\ faults' # faults /\ pc' # "interrupted")
          => /\ pc' # "raised"
             /\ result'.status_code = result.status_code
             /\ result'.load_time_ms = result.load_time_ms]_vars

\* C14: when the run is interrupted while the crawl loop is in progress, the
\* records gathered so far are what the caller of crawl() has received, so
\* that it can export them.
C14_InterruptLeavesResultsToCaller ==
    (pc = "interrupted") => returned = ListVal(results)

\* the URLs that have a record
Audited == {RecordKey(i) : i \in 1..Len(results)}

\* C15: Link Discovery after the audit of u reads u's own rendered page, and
\* a comparison base does not change which pages are audited: in a run
\* without seeds and without failure the audited URLs are the URLs reachable
\* from the base URL, a set that does not depend on the comparison base.
C15_CompareBaseKeepsAuditedSet ==
    /\ (pc = "discover") => tab \in {Blank, Doc(url)}
    /\ (pc \in {"done", "exported"} /\ ~Truthy(drush_cmd) /\ faults = 0)
          => Audited = Reachable

NoDuplicates(s) == \A i, j \in 1..Len(s) : s[i] = s[j] => i = j

\* C16: the list discover_links returns for the page in the tab holds no
\* URL twice.
C16_DiscoveredLinksDistinct ==
    (pc = "discover") => NoDuplicates(discover_links(TRUE, tab, base_url))

\* C17: when the link-extraction script cannot be evaluated, discover_links
\* returns an empty list: nothing is enqueued, the queue, the visited set and
\* the results are left as they were, and the loop goes on with the next
\* queued URL.
C17_DiscoveryFailureIsAbsorbed ==
    [][(pc = "discover" /\ faults' # faults /\ pc' # "interrupted")
          => /\ queue' = queue
             /\ enqueued' = enqueued
             /\ visited' = visited
             /\ results' = results
             /\ pc' = "loop"]_vars

\* the home page was audited without failure and shows in the tab, its link
\* extraction failed: the link to /about was not enqueued
C17_Witness ==
    /\ pc = "loop"
    /\ faults = 1
    /\ base_url = HostS
    /\ ~Truthy(drush_cmd)
    /\ ~Truthy(compare_base)
    /\ Len(results) = 1
    /\ results[1].status_code = IntVal(200)
    /\ tab = Doc(url)
    /\ AnchorsOf(tab.url) # <<>>
    /\ queue = <<>>
    /\ enqueued = <<HostS \o <<"/">>>>

\* C18: every URL discover_links returns for the page in the tab is on the
\* base host, carries no fragment and no query string and is not
\* skip-eligible; every record is of a URL on the base host.
C18_DiscoveredLinksOnBaseHost ==
    /\ (pc = "discover") =>
          \A l \in Range(discover_links(TRUE, tab, base_url)) :
              /\ OnBaseHost(l)
              /\ "#" \notin Range(l)
              /\ "?" \notin Range(l)
              /\ ~should_skip(l)
    /\ \A i \in 1..Len(results) : OnBaseHost(results[i].full_url)

\* C19: with every engine call returning and no abnormal event injected, the
\* crawl eventually reaches Done with an empty queue; the browser session is
\* closed only when the queue is empty, and nothing is navigated or audited
\* after it is closed.
C19_CrawlReachesDone ==
    /\ <>(faults > 0 \/ (pc \in {"done", "exported"} /\ queue = <<>>))
    /\ [](browser = "closed" => (queue = <<>> /\ pc \in {"done", "exported"}))
    /\ [][browser = "closed" => (browser' = "closed" /\ results' = results
                                 /\ tab' = tab)]_vars

\* C20: visited and results change only in the loop body of crawl: visited
\* when a URL is taken up for audit (line 465), results when the record
\* audit_page returned is appended (line 470); the phases of audit_page and
\* discover_links leave both unchanged, and popping a URL that is already
\* visited or skip-eligible leaves both unchanged and starts no audit.
C20_VisitedAndResultsOnlyInLoopBody ==
    [][/\ (visited' # visited) => (pc = "loop" /\ pc' = "nav")
       /\ (results' # results) => (pc = "return" /\ pc' = "discover")
       /\ (/\ pc = "loop"
           /\ queue # <<>>
           /\ \/ normalise_url(Head(queue)) \in visited
              \/ should_skip(Head(queue)))
             => (visited' = visited /\ results' = results /\ pc' # "nav")]_vars

\* the crawl from /node/1: the page links to /contact twice, both links are
\* enqueued; after the audit of /contact the second entry has been popped and
\* dropped, /about is what is left
C20_Witness ==
    /\ pc = "loop"
    /\ base_url = HostS \o <<"/","n","o","d","e","/","1">>
    /\ url = HostS \o <<"/","c","o","n","t","a","c","t">>
    /\ url \in visited
    /\ Len(results) = 2
    /\ results[2].full_url = url
    /\ enqueued = << base_url \o <<"/">>, url, url,
                     HostS \o <<"/","a","b","o","u","t">> >>
    /\ queue = << HostS \o <<"/","a","b","o","u","t">> >>

\* the i-th record of the collection as the program holds it now: the record
\* appended at line 470, with the error list it refers to
RecordNow(i) == [results[i] EXCEPT !.errors = ErrorsList(@, old_js_errors[i])]

\* C21: a record is immutable once appended: no step of the crawl, and no
\* event that the handlers of an earlier audit_page call receive during the
\* audit of a later URL, changes a field of a record already in results.
C21_AppendedRecordsImmutable ==
    [][\A i \in 1..Len(results) :
          /\ i <= Len(results')
          /\ RecordNow(i)' = RecordNow(i)]_vars

\* the home page raises no event: the entries in the list of its handlers
\* come from the audit of a later URL, and its record has none of them
C21_Witness ==
    /\ Len(results) >= 2
    /\ PageOf(results[1].full_url) = "home"
    /\ results[1].status_code = IntVal(200)
    /\ old_js_errors[1] # <<>>
    /\ RecordNow(1).errors = <<>>

\* C22: the handlers audit_page subscribes on the tab are subscribed only for
\* the duration of the call: outside audit_page none is left on the tab.
C22_NoListenerOutsideAudit ==
    (pc \in {"loop", "discover", "done", "exported"}) => listeners = 0

\* C23: when the responsive sweep is left, whatever failed inside it, the
\* tab's viewport is the default desktop size 1440x900. (An interrupt of the
\* run is no failure of the sweep.)
C23_ViewportResetAfterSweep ==
    [][(pc \in {"sweep", "reset"} /\ pc' \notin {"sweep", "reset", "interrupted"})
          => viewport' = <<1440, 900>>]_vars

\* the predicates of lines 339-349 that hold for the page at width w
Overflows(page, w) == ScrollWidthOf(page, w) > w
FixedOverflows(page, w) == \E f \in FixedWidthsOf(page) : f > w

\* what the claim lets an iteration with outcome o append for the page at the
\* viewport v: nothing after a failed re-navigation or evaluation, else one
\* entry per predicate that holds, horizontal_overflow first, with the
\* screenshot reference null after a failed capture
EntriesAsClaimed(es, o, page, v) ==
    IF o \in {"nav_error", "eval_error", "resize_error"} THEN es = <<>>
    ELSE /\ Len(es) = (IF Overflows(page, v.width) THEN 1 ELSE 0)
                      + (IF FixedOverflows(page, v.width) THEN 1 ELSE 0)
         /\ \A k \in 1..Len(es) :
               /\ es[k].viewport = v.label
               /\ (es[k].screenshot = NoneVal) <=> (o = "shot_error")
               /\ es[k].issue =
                     IF k = 1 /\ Overflows(page, v.width)
                     THEN <<"horizontal_overflow">> ELSE <<"fixed_element_overflow">>

\* C24: in the sweep the viewports are taken in the order 375, 768, 1440;
\* an iteration whose re-navigation or evaluation fails appends no entry and
\* the sweep goes on; otherwise it appends one entry per triggered
\* predicate, also when the capture fails (screenshot null).
C24_SweepEntries ==
    /\ [](pc = "sweep" =>
             \A o \in {"ok", "nav_error", "eval_error", "shot_error"} :
                 EntriesAsClaimed(
                     SweepEntries(o, LayoutIssues(PageOf(url), VIEWPORTS[vp].width),
                                  VIEWPORTS[vp].label, ShotName(url, VIEWPORTS[vp].label)),
                     o, PageOf(url), VIEWPORTS[vp]))
    /\ [][(pc = "sweep" /\ pc' \notin {"raised", "interrupted"}) =>
             /\ \E o \in {"ok", "nav_error", "eval_error", "shot_error"} :
                   EntriesAsClaimed(
                       SubSeq(result'.responsive_issues,
                              Len(result.responsive_issues) + 1,
                              Len(result'.responsive_issues)),
                       o, PageOf(url), VIEWPORTS[vp])
             /\ SubSeq(result'.responsive_issues, 1, Len(result.responsive_issues))
                   = result.responsive_issues
             /\ IF vp = 3 THEN pc' = "reset" ELSE pc' = "sweep" /\ vp' = vp + 1]_vars
    /\ [](pc = "sweep" =>
             /\ vp \in 1..3
             /\ [i \in 1..3 |-> VIEWPORTS[i].width] = <<375, 768, 1440>>)

\* the /about page at 375: both predicates hold, the capture has failed, and
\* the two entries are there without a screenshot
C24_Witness ==
    /\ pc = "sweep"
    /\ vp = 2
    /\ PageOf(url) = "about"
    /\ Len(result.responsive_issues) = 2
    /\ result.responsive_issues[1].issue = <<"horizontal_overflow">>
    /\ result.responsive_issues[2].issue = <<"fixed_element_overflow">>
    /\ result.responsive_issues[1].screenshot = NoneVal
    /\ result.responsive_issues[2].screenshot = NoneVal

\* the responsive-issue entries of all records that reference an image, as
\* <<record, entry, file>>
ShotRefsOf(i) ==
    {<<i, k, results[i].responsive_issues[k].screenshot.v>> :
        k \in {k \in 1..Len(results[i].responsive_issues) :
                  results[i].responsive_issues[k].screenshot # NoneVal}}

ShotRefs ==
    UNION {ShotRefsOf(i) : i \in 1..Len(results)}

\* C25: every responsive-issue entry whose capture succeeded references an
\* image file of its own: no two entries, of the same page and viewport or of
\* different pages, reference the same file.
C25_OneImagePerIssue ==
    \A a, b \in ShotRefs : a[3] = b[3] => a = b

\* the distinct URLs among the responses of one navigation
UrlsAmong(rs) == {rs[i][1] : i \in 1..Len(rs)}

\* the content-length of the last response of URL u, 0 without one
LengthOf(rs, u) ==
    LET i == CHOOSE i \in 1..Len(rs) :
                 /\ rs[i][1] = u
                 /\ \A j \in (i + 1)..Len(rs) : rs[j][1] # u
    IN  IF rs[i][2] = NoneVal \/ rs[i][2].v = <<>> THEN 0 ELSE ParseInt(rs[i][2].v)

\* C26: after a successful primary navigation request_count is the number of
\* distinct URLs among the responses observed during it and total_bytes the
\* sum of their content-length values (0 without one), whichever way the
\* response handler tasks interleave with the completion of page.goto.
C26_CountsCoverEveryResponse ==
    [][(pc = "nav" /\ pc' = "ttfb" /\ response' # NoneVal)
       => LET rs == ResponsesOf(url)
          IN  /\ result'.request_count = Cardinality(UrlsAmong(rs))
              /\ result'.total_bytes
                   = SumValues([u \in UrlsAmong(rs) |-> LengthOf(rs, u)], UrlsAmong(rs))]_vars

\* C27: where the installed browser lacks the navigation-timing or the
\* layout-shift API (or the measurement fails), the TTFB or CLS value of the
\* record is null: never 0, never an error entry; the audit goes on to the
\* next phase.
C27_MissingApiGivesNull ==
    [][/\ (pc = "ttfb" /\ pc' # "interrupted" /\ faults' # faults)
            => /\ pc' = "cls"
               /\ result'.ttfb_ms = NoneVal
               /\ result'.errors = result.errors
       /\ (pc = "cls" /\ pc' # "interrupted" /\ faults' # faults)
            => /\ pc' = "seo"
               /\ \/ result'.performance_vitals = <<>>
                  \/ result'.performance_vitals.cls = NoneVal
               /\ result'.errors = result.errors]_vars

\* s is t with some entries left out
RECURSIVE IsSubsequence(_, _)
IsSubsequence(s, t) ==
    IF s = <<>> THEN TRUE
    ELSE IF t = <<>> THEN FALSE
    ELSE IF Head(s) = Head(t) THEN IsSubsequence(Tail(s), Tail(t))
    ELSE IsSubsequence(s, Tail(t))

\* C28: every console error and uncaught page error the listeners of
\* audit_page observe before the call returns, in whichever phase (primary
\* navigation, responsive and accessibility re-navigations), is an entry of
\* the returned record's error list, in the order observed.
C28_EveryObservedErrorIsRecorded ==
    [][(pc = "return" /\ pc' = "discover")
       => IsSubsequence(js_errors, results'[Len(results')].errors)]_vars

\* the queue entries a record can come from that were on the initial queue
IsSeeded(u) == \E k \in 2..Len(seeded) : seeded[k] = u

\* C29: the initial queue has the base URL (with its trailing slash) at its
\* head, followed by the seeded URLs, also when a drush query fails or no
\* drush command is given; every seeded URL that is audited is audited
\* before any URL that entered the queue only through link discovery.
C29_BaseThenSeedsThenDiscovered ==
    /\ pc # "start" =>
          /\ seeded # <<>>
          /\ Head(seeded) = base_url \o <<"/">>
          /\ ~Truthy(drush_cmd) => Tail(seeded) = <<>>
          /\ \A k \in 2..Len(seeded) :
                \/ \E l \in Range(AliasOut) :
                      /\ Strip(l, " ") # <<>>
                      /\ seeded[k] \in {base_url \o Strip(l, " "),
                                        base_url \o <<"/">> \o Strip(l, " ")}
                \/ \E l \in Range(NodeOut) :
                      seeded[k] = base_url \o <<"/","n","o","d","e","/">> \o l
    /\ \A i, j \in 1..Len(results) :
          (/\ IsSeeded(results[i].full_url)
           /\ results[j].full_url \notin Range(seeded)) => i < j

\* two seeded pages have been audited and then a page that only a link led
\* to, in a run whose alias query failed
C29_Witness ==
    /\ Truthy(drush_cmd)
    /\ Len(seeded) = 2
    /\ Len(results) >= 3
    /\ IsSeeded(results[2].full_url)
    /\ results[3].full_url \notin Range(seeded)

\* the categories of the records crawl returned
CategoriesReturned == {returned.v[i].category : i \in 1..Len(returned.v)}

RECURSIVE PagesOver(_)
PagesOver(cs) ==
    IF cs = {} THEN 0
    ELSE LET c == CHOOSE c \in cs : TRUE
         IN  summary[c].pages + PagesOver(cs \ {c})

\* C30: in the summary of export_results every category's HTTP-200 count
\* plus its non-200 count is its page count, a record with a null status
\* code counting as non-200, and the page counts of all categories add up to
\* the number of records.
C30_SummaryCountsAddUp ==
    pc = "exported" =>
       /\ DOMAIN summary = CategoriesReturned
       /\ \A c \in DOMAIN summary :
             /\ summary[c].ok + summary[c].errors = summary[c].pages
             /\ summary[c].pages
                  = Cardinality({i \in 1..Len(returned.v) : returned.v[i].category = c})
             /\ summary[c].errors
                  = Cardinality({i \in 1..Len(returned.v) :
                                   /\ returned.v[i].category = c
                                   /\ returned.v[i].status_code # IntVal(200)})
       /\ PagesOver(DOMAIN summary) = Len(returned.v)

\* a summary has been written of records of two categories, one of them of
\* a page whose navigation failed (status code null)
C30_Witness ==
    /\ pc = "exported"
    /\ Cardinality(DOMAIN summary) >= 2
    /\ \E i \in 1..Len(returned.v) :
          /\ returned.v[i].status_code = NoneVal
          /\ summary[returned.v[i].category].errors >= 1

=============================================================================
